---- MODULE Spec2Model ----
(***************************************************************************)
(* Stocksight: the demand-forecasting and stock-recommendation core.       *)
(*                                                                         *)
(* The JavaScript services (ForecastService, forecastController,           *)
(* TrendWiseService) are modelled from their source.  The Python           *)
(* forecaster they spawn (model/trendwise_forecaster.py) is not part of    *)
(* the sources at hand; the recommendation rule, the model selector and    *)
(* the outlier capping are modelled from the design document.              *)
(*                                                                         *)
(* Numbers: quantities, stocks and forecasts are integers.  A JavaScript   *)
(* NaN is the marker NaN below; every arithmetic operator that receives    *)
(* it returns it, as IEEE arithmetic does.                                 *)
(***************************************************************************)
EXTENDS Integers, Sequences, FiniteSets, TLC

VARIABLES
    pc,               \* which component is exercised and how far it got
    current_stock,    \* Recommendation Engine: InventorySnapshot.current_stock
    point_forecast,   \* Recommendation Engine: ForecastResult.point_forecast
    safety_stock,     \* Recommendation Engine: z * demand_std * sqrt(lead_time)
    recommendation,   \* Recommendation Engine: the ternary recommendation
    mape,             \* Model Selector: holdout MAPE (percent) per model kind
    model_used,       \* Model Selector: the selected model kind
    salesData,        \* rows of sales_data of one product, in table order
    startDate,        \* fetchSalesDataFromDB: first day of the fetch window
    dailySales,       \* the derived per-date series, <<[date, quantity]>>
    sales_data,       \* table sales_data: product id -> its rows
    demand_forecasts, \* table demand_forecasts: the rows inserted so far
    produced,         \* the forecastData objects handed to createForecast
    request,          \* the operation under way and its parameters
    idx,              \* bulk operations: number of products already visited
    results,          \* bulk operations: the entries pushed so far
    response,         \* what the operation returned, or "none"
    products,         \* table products: product id -> its row
    inventory_alerts, \* table inventory_alerts: the rows inserted so far
    output,           \* stdout of the prediction script, line by line
    filled,           \* Preprocessor: the gap-filled series before capping
    capped,           \* Preprocessor: the series after capping, in eighths
    cancelledAt,      \* jobs dispatched when the caller gave up, or NotCancelled
    previous,         \* the request and outcome of the call before this one
    randomStream,     \* the values Math.random() returns, in call order
    drawn,            \* how many of them have been returned
    trainSeries,      \* Model Selector: the series of the training run
    holdoutSize,      \* Model Selector: periods reserved for validation
    fits,             \* Model Selector: the validation fit of each kind
    handle,           \* Model Selector: the TrainedModelHandle
    frequency,        \* Preprocessor: the detected cadence
    csvRecords,       \* TrendWiseService: the records of the sales CSV file
    demand_std,       \* Recommendation Engine: demand deviation, in tenths
    lead_time_days,   \* Recommendation Engine: the lead time
    steps,            \* POST /auto-pipeline: the service calls made so far
    opPc,             \* Temporary files: where each operation is
    opStamp,          \* Temporary files: the timestamp in its file names
    opOutcome,        \* Temporary files: how the operation ends
    opRead,           \* Temporary files: whose lines its script has read
    tempFiles,        \* Temporary files: the files of server/temp, by writer
    now,              \* Temporary files: Date.now()
    isRunning,        \* ScheduledUpdateService.isRunning
    intervals,        \* ScheduledUpdateService.intervals: name -> timer
    timers,           \* the interval timers the runtime holds
    timerSeq,         \* how many timers setInterval has created so far
    consoleLog,       \* the last line start() or stop() logged
    wallClock,        \* the time of the day, in ticks of half a minute
    due,              \* when the daily report timer is due next
    runningSince,     \* when the running scheduler was started
    reports           \* the times sendDailyInventoryReport was called

recVars == <<current_stock, point_forecast, safety_stock, recommendation>>
selVars == <<mape, model_used>>
aggVars == <<salesData, startDate, dailySales>>
dbVars == <<sales_data, demand_forecasts, produced>>
opVars == <<request, idx, results, response>>
twVars == <<products, inventory_alerts, output>>
capVars == <<filled, capped>>
trainVars == <<trainSeries, holdoutSize, fits, handle>>
callVars == <<cancelledAt, previous, randomStream, drawn>>
safetyVars == <<demand_std, lead_time_days>>
pipeVars == <<steps>>
fileVars == <<opPc, opStamp, opOutcome, opRead, tempFiles, now>>
schedVars == <<isRunning, intervals, timers, timerSeq, consoleLog>>
clockVars == <<wallClock, due, runningSince, reports>>
lateVars == <<pipeVars, fileVars, schedVars, clockVars>>
moreVars == <<frequency, csvRecords, safetyVars, lateVars>>
extVars == <<callVars, trainVars, moreVars>>
vars == <<pc, recVars, selVars, aggVars, dbVars, opVars, twVars, capVars, extVars>>

(***************************************************************************)
(* Bounds of the model                                                     *)
(***************************************************************************)
MaxStock == 6
MaxForecast == 4
MaxSafety == 3
MaxMapeSpread == 2
MaxDate == 4
MaxQty == 2
MaxSales == 3
MaxHistory == 7
MaxDays == 2
MaxValue == 3
MaxLen == 5
MaxTrainLen == 155
MaxStd == 5
MaxConstant == 11
MaxClock == 1
MaxAlertTime == 3
MaxAlerts == 3
MaxTimers == 8
MaxTime == 12
MaxDrift == 1

(***************************************************************************)
(* Recommendation Engine                                                   *)
(***************************************************************************)
\* The decision rule with its first two tests in the wrong order.
RecommendSafetyFirst(cs, pf, ss) ==
    IF cs < pf + ss THEN "Maintain"
    ELSE IF cs < pf THEN "Increase"
    ELSE "Reduce"

\* The decision rule with an inclusive upper end of the Maintain band.
RecommendInclusive(cs, pf, ss) ==
    IF cs < pf THEN "Increase"
    ELSE IF cs <= pf + ss THEN "Maintain"
    ELSE "Reduce"

Recommend(cs, pf, ss) ==
    IF cs < pf THEN "Increase"
    ELSE IF cs < pf + ss THEN "Maintain"
    ELSE "Reduce"

InitRec ==
    /\ current_stock \in 0..MaxStock
    /\ point_forecast \in 0..MaxForecast
    /\ safety_stock \in 0..MaxSafety
    /\ recommendation = "none"

RecommendStock ==
    /\ pc = "recommend"
    /\ recommendation' = Recommend(current_stock, point_forecast, safety_stock)
    /\ pc' = "done"
    /\ UNCHANGED <<twVars, capVars, extVars, current_stock, point_forecast, safety_stock, selVars, aggVars,
                   dbVars, opVars>>

(***************************************************************************)
(* Model Selector                                                          *)
(***************************************************************************)
MapeThreshold == 30

Fallbacks == <<"ExponentialSmoothing", "MovingAverage", "Naive">>
ModelKinds == {"Seasonal"} \cup {Fallbacks[i] : i \in 1..Len(Fallbacks)}

MapeValues == (MapeThreshold - 1)..(MapeThreshold + MaxMapeSpread)

\* A later fallback replaces the best one on a tie.
BestFallbackLastWins(m) ==
    LET b1 == Fallbacks[1]
        b2 == IF m[Fallbacks[2]] <= m[b1] THEN Fallbacks[2] ELSE b1
    IN  IF m[Fallbacks[3]] <= m[b2] THEN Fallbacks[3] ELSE b2

\* The fallbacks are scanned in preference order; a later one replaces the
\* best so far only when it is strictly better.
BestFallback(m) ==
    LET b1 == Fallbacks[1]
        b2 == IF m[Fallbacks[2]] < m[b1] THEN Fallbacks[2] ELSE b1
    IN  IF m[Fallbacks[3]] < m[b2] THEN Fallbacks[3] ELSE b2

SelectModel(m) ==
    IF m["Seasonal"] <= MapeThreshold THEN "Seasonal" ELSE BestFallback(m)

InitSel ==
    /\ mape \in [ModelKinds -> MapeValues]
    /\ model_used = "none"

SelectWinner ==
    /\ pc = "select"
    /\ model_used' = SelectModel(mape)
    /\ pc' = "done"
    /\ UNCHANGED <<twVars, capVars, extVars, mape, recVars, aggVars, dbVars, opVars>>

(***************************************************************************)
(* JavaScript arithmetic on exact rationals                                *)
(***************************************************************************)
\* The marker of a JavaScript NaN; it is below every number of the model.
NaN == 0 - 1000000
IsNumber(x) == x # NaN

Min(a, b) == IF a <= b THEN a ELSE b
Max(a, b) == IF a >= b THEN a ELSE b

\* Math.max(0, x): NaN when x is NaN.
MathMax0(x) == IF x = NaN THEN NaN ELSE Max(0, x)

\* The smallest integer >= num / den, den > 0.
CeilDiv(num, den) == 0 - ((0 - num) \div den)

\* Math.round(num / den), den > 0: the nearest integer, halves go up.
RoundDiv(num, den) == (2 * num + den) \div (2 * den)

RECURSIVE ISqrtBetween(_, _, _)
ISqrtBetween(n, lo, hi) ==
    IF lo >= hi THEN lo
    ELSE LET mid == (lo + hi + 1) \div 2
         IN  IF mid * mid <= n THEN ISqrtBetween(n, mid, hi)
             ELSE ISqrtBetween(n, lo, mid - 1)

\* The largest integer r with r * r <= n, n >= 0.
ISqrt(n) == ISqrtBetween(n, 0, Min(n, 46340))

\* The smallest integer r with r * r >= n, n >= 0.
CeilSqrt(n) == LET r == ISqrt(n) IN IF r * r = n THEN r ELSE r + 1

RECURSIVE SumSeq(_)
SumSeq(xs) == IF xs = <<>> THEN 0 ELSE Head(xs) + SumSeq(Tail(xs))

SumSquares(xs) == SumSeq([i \in 1..Len(xs) |-> xs[i] * xs[i]])

\* n^2 times the population variance of xs: n * sum(x^2) - sum(x)^2, so that
\* stdDev / mean = sqrt(Dispersion) / sum.
Dispersion(xs) == Len(xs) * SumSquares(xs) - SumSeq(xs) * SumSeq(xs)

\* values.slice(-window)
SliceLast(xs, window) ==
    IF Len(xs) <= window THEN xs ELSE SubSeq(xs, Len(xs) - window + 1, Len(xs))

\* Math.max(0, Math.round(average * f)) for the factors f of [lo, hi) / den,
\* average = total / count: the integers p whose rounding interval
\* [p - 1/2, p + 1/2) meets [average * lo / den, average * hi / den).
RoundedProducts(total, count, lo, hi, den) ==
    {p \in 0..(RoundDiv(total * hi, count * den) + 1) :
        /\ 2 * total * lo < (2 * p + 1) * count * den
        /\ (2 * p - 1) * count * den < 2 * total * hi}

(***************************************************************************)
(* Daily aggregation of sale events (ForecastService, TrendWiseService)    *)
(***************************************************************************)
Dates == 1..MaxDate
Quantities == 0..MaxQty
SalesRecords == [sale_date : Dates, quantity_sold : Quantities]

RECURSIVE SeqsUpTo(_, _)
SeqsUpTo(S, n) ==
    IF n = 0 THEN {<<>>}
    ELSE LET shorter == SeqsUpTo(S, n - 1)
         IN  shorter \cup {Append(q, x) : q \in {r \in shorter : Len(r) = n - 1}, x \in S}

\* dailyMap.has(date)
MapHas(dailyMap, date) == \E i \in 1..Len(dailyMap) : dailyMap[i].date = date

\* dailyMap.get(date)
MapGet(dailyMap, date) ==
    LET i == CHOOSE k \in 1..Len(dailyMap) : dailyMap[k].date = date
    IN  dailyMap[i].quantity

\* dailyMap.set(date, quantity): a present key keeps its position, a new key
\* goes last.
MapSet(dailyMap, date, quantity) ==
    IF MapHas(dailyMap, date)
    THEN [i \in 1..Len(dailyMap) |->
            IF dailyMap[i].date = date
            THEN [date |-> date, quantity |-> quantity]
            ELSE dailyMap[i]]
    ELSE Append(dailyMap, [date |-> date, quantity |-> quantity])

\* One pass of the forEach, storing the sale's quantity instead of adding it.
AddSaleOverwrite(dailyMap, sale) ==
    MapSet(dailyMap, sale.sale_date, sale.quantity_sold)

\* One pass of the forEach: the date's entry is created at 0 when absent and
\* the sale's quantity is added to it.
AddSale(dailyMap, sale) ==
    LET m0 == IF MapHas(dailyMap, sale.sale_date)
              THEN dailyMap
              ELSE MapSet(dailyMap, sale.sale_date, 0)
    IN  MapSet(m0, sale.sale_date, MapGet(m0, sale.sale_date) + sale.quantity_sold)

RECURSIVE GroupByDate(_, _)
GroupByDate(sales, dailyMap) ==
    IF sales = <<>> THEN dailyMap
    ELSE GroupByDate(Tail(sales), AddSale(dailyMap, Head(sales)))

\* Array.prototype.sort with the comparator a.date - b.date (stable).
RECURSIVE InsertByDate(_, _)
InsertByDate(sorted, e) ==
    IF sorted = <<>> THEN <<e>>
    ELSE IF Head(sorted).date <= e.date
         THEN <<Head(sorted)>> \o InsertByDate(Tail(sorted), e)
         ELSE <<e>> \o sorted

RECURSIVE SortByDate(_)
SortByDate(entries) ==
    IF entries = <<>> THEN <<>>
    ELSE InsertByDate(SortByDate(SubSeq(entries, 1, Len(entries) - 1)),
                      entries[Len(entries)])

aggregateDailySales(sales) == SortByDate(GroupByDate(sales, <<>>))

\* The sales_data query of fetchSalesDataFromDB: rows of the product with
\* sale_date >= start, ordered by sale_date ascending.
RECURSIVE InsertBySaleDate(_, _)
InsertBySaleDate(sorted, r) ==
    IF sorted = <<>> THEN <<r>>
    ELSE IF Head(sorted).sale_date <= r.sale_date
         THEN <<Head(sorted)>> \o InsertBySaleDate(Tail(sorted), r)
         ELSE <<r>> \o sorted

RECURSIVE QuerySales(_, _)
QuerySales(rows, start) ==
    IF rows = <<>> THEN <<>>
    ELSE LET rest == QuerySales(SubSeq(rows, 1, Len(rows) - 1), start)
             r == rows[Len(rows)]
         IN  IF r.sale_date >= start THEN InsertBySaleDate(rest, r) ELSE rest

\* dailySales[date] = (dailySales[date] || 0) + sale.quantity_sold, then
\* Object.entries in insertion order.
AddSaleToObject(dailyObj, sale) ==
    MapSet(dailyObj, sale.sale_date,
           (IF MapHas(dailyObj, sale.sale_date) /\ MapGet(dailyObj, sale.sale_date) # 0
            THEN MapGet(dailyObj, sale.sale_date) ELSE 0) + sale.quantity_sold)

RECURSIVE GroupIntoObject(_, _)
GroupIntoObject(sales, dailyObj) ==
    IF sales = <<>> THEN dailyObj
    ELSE GroupIntoObject(Tail(sales), AddSaleToObject(dailyObj, Head(sales)))

fetchSalesDataFromDB(rows, start) == GroupIntoObject(QuerySales(rows, start), <<>>)

InitAgg ==
    /\ salesData \in SeqsUpTo(SalesRecords, MaxSales)
    /\ startDate \in Dates
    /\ dailySales = <<>>

AggregateDailySales ==
    /\ pc = "aggregate"
    /\ dailySales' = aggregateDailySales(salesData)
    /\ pc' = "aggregated"
    /\ UNCHANGED <<twVars, capVars, extVars, salesData, startDate, recVars, selVars, dbVars, opVars>>

FetchSalesDataFromDB ==
    /\ pc = "aggregate"
    /\ dailySales' = fetchSalesDataFromDB(salesData, startDate)
    /\ pc' = "fetched"
    /\ UNCHANGED <<twVars, capVars, extVars, salesData, startDate, recVars, selVars, dbVars, opVars>>

IdleAgg ==
    /\ salesData = <<>> /\ startDate = 1 /\ dailySales = <<>>

(***************************************************************************)
(* Forecast models of ForecastService                                      *)
(***************************************************************************)
Quantity(dailySeries) == [i \in 1..Len(dailySeries) |-> dailySeries[i].quantity]

MovingAverageWindow == 7

\* simpleMovingAverage: the values one day's prediction can take, the mean
\* of the last 7 points times a random factor of [0.95, 1.05), rounded.
simpleMovingAverage(series) ==
    LET recentValues == SliceLast(Quantity(series), MovingAverageWindow)
    IN  RoundedProducts(SumSeq(recentValues), Len(recentValues), 95, 105, 100)

\* smoothed = alpha * values[i] + (1 - alpha) * smoothed with alpha = 0.3, as
\* the fraction num / den.
RECURSIVE SmoothFrom(_, _, _, _)
SmoothFrom(values, i, num, den) ==
    IF i > Len(values) THEN <<num, den>>
    ELSE SmoothFrom(values, i + 1, 3 * values[i] * den + 7 * num, 10 * den)

exponentialSmoothing(series) ==
    LET values == Quantity(series)
        smoothed == SmoothFrom(values, 2, values[1], 1)
    IN  {Max(0, RoundDiv(smoothed[1], smoothed[2]))}

\* linearTrend: least squares over x = 0..n-1, continued to x = n + i - 1.
\* With a single point slope is 0 / 0 and every prediction is NaN.
linearTrend(series, i) ==
    LET values == Quantity(series)
        n == Len(values)
        xSum == SumSeq([k \in 1..n |-> k - 1])
        ySum == SumSeq(values)
        xySum == SumSeq([k \in 1..n |-> (k - 1) * values[k]])
        x2Sum == SumSeq([k \in 1..n |-> (k - 1) * (k - 1)])
        slopeNum == n * xySum - xSum * ySum
        slopeDen == n * x2Sum - xSum * xSum
        x == n + i - 1
    IN  IF slopeDen = 0 THEN {NaN}
        ELSE {Max(0, RoundDiv(n * slopeNum * x + ySum * slopeDen - slopeNum * xSum,
                              n * slopeDen))}

ModelNames == {"simple_moving_average", "exponential_smoothing", "linear_trend"}

\* this.models[model] || this.models.simple_moving_average, for day i.
PredictedValues(model, series, i) ==
    IF model = "exponential_smoothing" THEN exponentialSmoothing(series)
    ELSE IF model = "linear_trend" THEN linearTrend(series, i)
    ELSE simpleMovingAverage(series)

\* forecastModel.call(this, dailySales, days): the sequences of predictions
\* the chosen model can return.
PredictionSeqs(model, series, days) ==
    LET all == UNION {PredictedValues(model, series, i) : i \in 1..days}
    IN  {f \in [1..days -> all] :
            \A i \in 1..days : f[i] \in PredictedValues(model, series, i)}

\* Math.round(stdDev * 1.96) of the historical values.
IntervalHalfWidth(values) ==
    (ISqrt((153664 * Dispersion(values)) \div 10000) + Len(values))
        \div (2 * Len(values))

\* Math.min(hi, Math.max(lo, 1 - (stdDev / mean) * 0.5)) in thousandths,
\* rounded to a multiple of step thousandths; stdDev / mean is
\* sqrt(dispersion) / total, and the score is NaN when the mean is 0.
ConfidenceScore(dispersion, total, lo, hi, step) ==
    IF total = 0 THEN NaN
    ELSE LET scale == 1000 \div step
             raw == 1000 - step * CeilDiv(CeilSqrt(scale * scale * dispersion) - total,
                                          2 * total)
         IN  Min(hi, Max(lo, raw))

\* calculateConfidenceIntervals for one prediction.
calculateConfidenceIntervals(predicted, series) ==
    LET values == Quantity(series)
        halfWidth == IntervalHalfWidth(values)
    IN  [predicted |-> predicted,
         confidence_score |-> ConfidenceScore(Dispersion(values), SumSeq(values), 650, 950, 1),
         lower_bound |-> IF predicted = NaN THEN NaN ELSE Max(0, predicted - halfWidth),
         upper_bound |-> IF predicted = NaN THEN NaN ELSE predicted + halfWidth]

(***************************************************************************)
(* Tables and single-product forecast generation                           *)
(***************************************************************************)
ProductList == <<"P1", "P2">>
Products == {ProductList[i] : i \in 1..Len(ProductList)}

SalesLimit == 90
MinSalesRecords == 7

\* The rows of a history: a quantity a up to row k and b after it (constant
\* histories, all-zero ones, level shifts), with the dates one per day, all
\* on one day, or two sales per day.
DatePatterns(n) ==
    {[i \in 1..n |-> i], [i \in 1..n |-> 1], [i \in 1..n |-> (i + 1) \div 2]}

QuantityPatterns(n) ==
    {[i \in 1..n |-> IF i <= k THEN a ELSE b] :
        k \in 0..n, a \in Quantities, b \in Quantities}

Histories ==
    UNION {{[i \in 1..n |-> [sale_date |-> dates[i], quantity_sold |-> q[i]]] :
               q \in QuantityPatterns(n), dates \in DatePatterns(n)} :
           n \in 0..MaxHistory}

\* .order('sale_date', { ascending: false })
RECURSIVE InsertDescending(_, _)
InsertDescending(sorted, r) ==
    IF sorted = <<>> THEN <<r>>
    ELSE IF Head(sorted).sale_date >= r.sale_date
         THEN <<Head(sorted)>> \o InsertDescending(Tail(sorted), r)
         ELSE <<r>> \o sorted

RECURSIVE OrderDescending(_)
OrderDescending(rows) ==
    IF rows = <<>> THEN <<>>
    ELSE InsertDescending(OrderDescending(SubSeq(rows, 1, Len(rows) - 1)),
                          rows[Len(rows)])

\* dbHelpers.getSalesData(productId, limit): the newest `limit` rows.
getSalesData(productId, limit) ==
    LET rows == OrderDescending(sales_data[productId])
    IN  IF Len(rows) <= limit THEN rows ELSE SubSeq(rows, 1, limit)

HasNaN(forecastData) ==
    \/ forecastData.predicted_demand = NaN
    \/ forecastData.confidence_score = NaN
    \/ forecastData.lower_bound = NaN
    \/ forecastData.upper_bound = NaN

\* A run of createForecast calls over the records, in order.  The insert of
\* a record fails when the database is down at that call (failAt) or when a
\* field is NaN: NaN is sent as null and every column is NOT NULL.
\* The run stops at the first failure.
FirstFailure(records, failAt) ==
    LET failing == {k \in 1..Len(records) : k = failAt \/ HasNaN(records[k])}
    IN  IF failing = {} THEN 0
        ELSE CHOOSE k \in failing : \A j \in failing : k <= j

SaveRun(records, failAt) ==
    LET k == FirstFailure(records, failAt)
    IN  IF k = 0
        THEN [ok |-> TRUE, error |-> "", produced |-> records, persisted |-> records]
        ELSE [ok |-> FALSE,
              error |-> IF k = failAt THEN "createForecast failed"
                        ELSE "null value violates not-null constraint",
              produced |-> SubSeq(records, 1, k),
              persisted |-> SubSeq(records, 1, k - 1)]

\* saveForecastToDatabase builds one forecastData per prediction.
ServiceRecords(productId, model, predictions, series) ==
    [i \in 1..Len(predictions) |->
        LET c == calculateConfidenceIntervals(predictions[i], series)
        IN  [product_id |-> productId, forecast_day |-> i,
             predicted_demand |-> c.predicted,
             confidence_score |-> c.confidence_score,
             lower_bound |-> c.lower_bound,
             upper_bound |-> c.upper_bound,
             model_version |-> model]]

\* ForecastService.generateForecast: the ways one call can end.
generateForecast(productId, model, days) ==
    LET rows == getSalesData(productId, SalesLimit)
        series == aggregateDailySales(rows)
    IN  {[ok |-> FALSE, error |-> "getSalesData failed",
          produced |-> <<>>, persisted |-> <<>>]}
        \cup
        (IF Len(rows) < MinSalesRecords
         THEN {[ok |-> FALSE, error |-> "Insufficient historical data for forecasting",
                produced |-> <<>>, persisted |-> <<>>]}
         ELSE {SaveRun(ServiceRecords(productId, model, predictions, series), failAt) :
                  predictions \in PredictionSeqs(model, series, days),
                  failAt \in 0..days})

\* 1 + 0.1 * Math.sin((i / 7) * 2 * Math.PI) in hundred-thousandths.
SeasonalFactor(i) ==
    <<107818, 109749, 104339, 95661, 90251, 92182, 100000>>[((i - 1) % 7) + 1]

\* forecastController.generateForecast, day i: the predictions the random
\* factor of [0.9, 1.1) allows.
ControllerPredicted(rows, i) ==
    LET q == [k \in 1..Len(rows) |-> rows[k].quantity_sold]
    IN  RoundedProducts(SumSeq(q), Len(q), 9 * SeasonalFactor(i),
                        11 * SeasonalFactor(i), 1000000)

\* The forecastData of day i for a prediction; volatility / avgSales is
\* sqrt(dispersion) / total and makes every derived field NaN when the
\* average is 0.
ControllerRecord(productId, rows, i, predicted) ==
    LET q == [k \in 1..Len(rows) |-> rows[k].quantity_sold]
        total == SumSeq(q)
        d == Dispersion(q)
    IN  [product_id |-> productId, forecast_day |-> i,
         predicted_demand |-> predicted,
         confidence_score |-> ConfidenceScore(d, total, 500, 950, 10),
         lower_bound |->
            IF total = 0 THEN NaN
            ELSE Max(0, predicted
                        - CeilDiv(CeilSqrt(4 * predicted * predicted * d) - total,
                                  2 * total)),
         upper_bound |->
            IF total = 0 THEN NaN
            ELSE predicted + (ISqrt(4 * predicted * predicted * d) + total)
                                \div (2 * total),
         model_version |-> "v1.0"]

ControllerRecordSeqs(productId, rows, days) ==
    LET all == UNION {ControllerPredicted(rows, i) : i \in 1..days}
    IN  {[i \in 1..days |-> ControllerRecord(productId, rows, i, f[i])] :
            f \in {g \in [1..days -> all] :
                      \A i \in 1..days : g[i] \in ControllerPredicted(rows, i)}}

NoRequest == [op |-> "none", productId |-> "", model |-> "", days |-> 0]
NoResponse == [status |-> "none", error |-> "", body |-> <<>>]

IdleOp ==
    /\ request = NoRequest /\ idx = 0 /\ results = <<>> /\ response = NoResponse

IdleDb ==
    /\ sales_data = [p \in {} |-> <<>>]
    /\ demand_forecasts = <<>> /\ produced = <<>>

InitForecast ==
    /\ \E h \in Histories :
          sales_data = [p \in Products |-> IF p = ProductList[1] THEN h ELSE <<>>]
    /\ demand_forecasts = <<>> /\ produced = <<>>
    /\ IdleOp

\* The daily series of a product with one sale of a constant quantity on
\* each of the 90 days getSalesData returns.
ConstantSeries ==
    {[i \in 1..SalesLimit |-> [date |-> first + i - 1, quantity |-> c]] :
        first \in Dates, c \in 0..MaxConstant}

InitConstant ==
    /\ dailySales \in ConstantSeries
    /\ salesData = <<>> /\ startDate = 1
    /\ IdleDb /\ IdleOp

\* generateForecast with its default model: simpleMovingAverage(dailySales,
\* days), the predictions it returns.
MovingAverageForecast ==
    /\ pc = "series"
    /\ \E days \in 1..MaxDays :
         \E predictions \in PredictionSeqs("simple_moving_average", dailySales, days) :
            /\ request' = [op |-> "ForecastService.simpleMovingAverage",
                           productId |-> ProductList[1],
                           model |-> "simple_moving_average", days |-> days]
            /\ results' = [i \in 1..days |-> [forecast_day |-> i,
                                               predicted |-> predictions[i]]]
    /\ pc' = "predicted"
    /\ UNCHANGED <<twVars, capVars, extVars, dbVars, idx, response, recVars, selVars,
                   aggVars>>

\* ForecastService.generateForecast(productId, model, days)
ServiceGenerateForecast ==
    /\ pc = "forecast"
    /\ \E productId \in Products, model \in ModelNames, days \in 1..MaxDays :
         \E o \in generateForecast(productId, model, days) :
            /\ request' = [op |-> "ForecastService.generateForecast",
                           productId |-> productId, model |-> model, days |-> days]
            /\ demand_forecasts' = demand_forecasts \o o.persisted
            /\ produced' = produced \o o.produced
            /\ response' = IF o.ok
                           THEN [status |-> "returned", error |-> "", body |-> o.persisted]
                           ELSE [status |-> "thrown", error |-> o.error, body |-> <<>>]
    /\ pc' = "done"
    /\ UNCHANGED <<twVars, capVars, extVars, sales_data, idx, results, recVars, selVars, aggVars>>

\* forecastController.generateForecast: the request is answered 400 when the
\* product has no sales row.
ControllerRejectForecast ==
    /\ pc = "forecast"
    /\ \E productId \in Products, days \in 1..MaxDays :
         /\ Len(getSalesData(productId, SalesLimit)) = 0
         /\ request' = [op |-> "forecastController.generateForecast",
                        productId |-> productId, model |-> "v1.0", days |-> days]
         /\ response' = [status |-> "400",
                         error |-> "No sales data available for forecasting",
                         body |-> <<>>]
    /\ pc' = "done"
    /\ UNCHANGED <<twVars, capVars, extVars, dbVars, idx, results, recVars, selVars, aggVars>>

\* forecastController.generateForecast: one forecastData per day is built
\* and saved; a failed save answers 500.
ControllerGenerateForecast ==
    /\ pc = "forecast"
    /\ \E productId \in Products, days \in 1..MaxDays :
         LET rows == getSalesData(productId, SalesLimit) IN
         /\ Len(rows) # 0
         /\ \E records \in ControllerRecordSeqs(productId, rows, days),
               failAt \in 0..days :
              LET o == SaveRun(records, failAt) IN
              /\ request' = [op |-> "forecastController.generateForecast",
                             productId |-> productId, model |-> "v1.0", days |-> days]
              /\ demand_forecasts' = demand_forecasts \o o.persisted
              /\ produced' = produced \o o.produced
              /\ response' = IF o.ok
                             THEN [status |-> "200", error |-> "", body |-> o.persisted]
                             ELSE [status |-> "500", error |-> o.error, body |-> <<>>]
    /\ pc' = "done"
    /\ UNCHANGED <<twVars, capVars, extVars, sales_data, idx, results, recVars, selVars, aggVars>>

(***************************************************************************)
(* Bulk forecast generation                                                *)
(***************************************************************************)
BatchList == <<"P1", "P2", "P3">>
BatchProducts == {BatchList[i] : i \in 1..Len(BatchList)}

BulkSalesLimit == 30
BulkMinSalesRecords == 5

\* Histories of the products of a batch: none, or a run of one quantity.
BatchHistories ==
    {<<>>} \cup
    {[i \in 1..n |-> [sale_date |-> i, quantity_sold |-> q]] :
        n \in (BulkMinSalesRecords - 1)..MaxHistory, q \in {0, MaxQty}}

InitBatch ==
    /\ sales_data \in [BatchProducts -> BatchHistories]
    /\ demand_forecasts = <<>> /\ produced = <<>>
    /\ IdleOp

\* ForecastService.generateBulkForecasts(productIds, model) is called.
ServiceBulkStart ==
    /\ pc = "batch"
    /\ \E model \in ModelNames, days \in 1..MaxDays :
          request' = [op |-> "ForecastService.generateBulkForecasts",
                      productId |-> "", model |-> model, days |-> days]
    /\ pc' = "looping"
    /\ UNCHANGED <<twVars, capVars, extVars, dbVars, idx, results, response, recVars, selVars, aggVars>>

\* One pass of its loop: generateForecast in a try, the outcome pushed.
ServiceBulkStep ==
    /\ pc = "looping"
    /\ request.op = "ForecastService.generateBulkForecasts"
    /\ idx < Len(BatchList)
    /\ LET productId == BatchList[idx + 1] IN
       \E o \in generateForecast(productId, request.model, request.days) :
          /\ demand_forecasts' = demand_forecasts \o o.persisted
          /\ produced' = produced \o o.produced
          /\ results' = Append(results, [productId |-> productId,
                                         success |-> o.ok, error |-> o.error])
    /\ idx' = idx + 1
    /\ UNCHANGED <<twVars, capVars, extVars, pc, sales_data, request, response, recVars, selVars, aggVars>>

ServiceBulkReturn ==
    /\ pc = "looping"
    /\ request.op = "ForecastService.generateBulkForecasts"
    /\ idx = Len(BatchList)
    /\ response' = [status |-> "returned", error |-> "", body |-> results]
    /\ pc' = "done"
    /\ UNCHANGED <<twVars, capVars, extVars, dbVars, request, idx, results, recVars, selVars, aggVars>>

\* forecastController.bulkGenerateForecasts is called; getProducts throws
\* when the database is down and the request is answered 500.
ControllerBulkStart ==
    /\ pc = "batch"
    /\ \E days \in 1..MaxDays :
          request' = [op |-> "forecastController.bulkGenerateForecasts",
                      productId |-> "", model |-> "v1.0-bulk", days |-> days]
    /\ \/ pc' = "looping" /\ UNCHANGED response
       \/ /\ pc' = "done"
          /\ response' = [status |-> "500", error |-> "getProducts failed",
                          body |-> <<>>]
    /\ UNCHANGED <<twVars, capVars, extVars, dbVars, idx, results, recVars, selVars, aggVars>>

\* Math.max(0, Math.round(avgSales * f)), f of [0.9, 1.1), then the fixed
\* confidence and the 80% / 120% bounds.
BulkRecord(productId, i, predicted) ==
    [product_id |-> productId, forecast_day |-> i,
     predicted_demand |-> predicted,
     confidence_score |-> 750,
     lower_bound |-> RoundDiv(8 * predicted, 10),
     upper_bound |-> RoundDiv(12 * predicted, 10),
     model_version |-> "v1.0-bulk"]

BulkRecordSeqs(productId, rows, days) ==
    LET q == [k \in 1..Len(rows) |-> rows[k].quantity_sold]
        values == RoundedProducts(SumSeq(q), Len(q), 9, 11, 10)
    IN  {[i \in 1..days |-> BulkRecord(productId, i, f[i])] :
            f \in [1..days -> values]}

\* One pass of its loop for a product with fewer than 5 sales rows:
\* `continue`, nothing is pushed.
ControllerBulkSkip ==
    /\ pc = "looping"
    /\ request.op = "forecastController.bulkGenerateForecasts"
    /\ idx < Len(BatchList)
    /\ Len(getSalesData(BatchList[idx + 1], BulkSalesLimit)) < BulkMinSalesRecords
    /\ idx' = idx + 1
    /\ UNCHANGED <<twVars, capVars, extVars, pc, dbVars, request, results, response, recVars, selVars, aggVars>>

\* One pass of its loop otherwise: the forecasts of the product are saved
\* and a success entry is pushed; an exception pushes a failure entry.
ControllerBulkStep ==
    /\ pc = "looping"
    /\ request.op = "forecastController.bulkGenerateForecasts"
    /\ idx < Len(BatchList)
    /\ LET productId == BatchList[idx + 1]
           rows == getSalesData(productId, BulkSalesLimit)
       IN  \/ /\ Len(rows) >= BulkMinSalesRecords
              /\ \E records \in BulkRecordSeqs(productId, rows, request.days),
                    failAt \in 0..request.days :
                   LET o == SaveRun(records, failAt) IN
                   /\ demand_forecasts' = demand_forecasts \o o.persisted
                   /\ produced' = produced \o o.produced
                   /\ results' = Append(results, [productId |-> productId,
                                                  success |-> o.ok, error |-> o.error])
           \/ /\ results' = Append(results, [productId |-> productId, success |-> FALSE,
                                             error |-> "getSalesData failed"])
              /\ UNCHANGED <<demand_forecasts, produced>>
    /\ idx' = idx + 1
    /\ UNCHANGED <<twVars, capVars, extVars, pc, sales_data, request, response, recVars, selVars, aggVars>>

ControllerBulkRespond ==
    /\ pc = "looping"
    /\ request.op = "forecastController.bulkGenerateForecasts"
    /\ idx = Len(BatchList)
    /\ response' = [status |-> "200", error |-> "", body |-> results]
    /\ pc' = "done"
    /\ UNCHANGED <<twVars, capVars, extVars, dbVars, request, idx, results, recVars, selVars, aggVars>>

(***************************************************************************)
(* Cadence of a series (design document, Preprocessor step 3)              *)
(***************************************************************************)
DaysPerWeek == 7

\* Insertion sort of a sequence of integers.
RECURSIVE InsertInt(_, _)
InsertInt(sorted, x) ==
    IF sorted = <<>> THEN <<x>>
    ELSE IF Head(sorted) <= x
         THEN <<Head(sorted)>> \o InsertInt(Tail(sorted), x)
         ELSE <<x>> \o sorted

RECURSIVE SortInts(_)
SortInts(xs) ==
    IF xs = <<>> THEN <<>>
    ELSE InsertInt(SortInts(Tail(xs)), Head(xs))

\* Twice the median of a non-empty sequence of integers.
TwiceMedian(xs) ==
    LET sorted == SortInts(xs)
        n == Len(sorted)
    IN  IF n % 2 = 1 THEN 2 * sorted[(n + 1) \div 2]
        ELSE sorted[n \div 2] + sorted[n \div 2 + 1]

\* Daily only when the median gap is below 1.5 days.
DetectCadenceStrict(ds) ==
    LET gaps == [i \in 1..(Len(ds) - 1) |-> ds[i + 1] - ds[i]]
    IN  IF Len(ds) >= 2 /\ TwiceMedian(gaps) < 3 THEN "daily" ELSE "weekly"

\* Daily when the median gap between consecutive present dates is <= 1.5
\* days, weekly otherwise; ds is the increasing sequence of present dates.
DetectCadence(ds) ==
    LET gaps == [i \in 1..(Len(ds) - 1) |-> ds[i + 1] - ds[i]]
    IN  IF Len(ds) >= 2 /\ TwiceMedian(gaps) <= 3 THEN "daily" ELSE "weekly"

\* The period a date falls in: the day itself, or its calendar week.
PeriodOf(cadence, d) == IF cadence = "daily" THEN d ELSE d \div DaysPerWeek

(***************************************************************************)
(* TrendWise predictions: TrendWiseService.predictFromDB and the upload    *)
(* route POST /predict.  The prediction script is not part of the          *)
(* JavaScript sources: its results follow the specification's predict().   *)
(***************************************************************************)
\* A SKU is a string, a sequence of characters.
SkuList ==
    << <<"S", "K", "U", "1">>,
       <<"C", "O", "C", "-", "1", "L">>,
       <<"B", "A", "S", "-", "1", "K">> >>
Skus == {SkuList[i] : i \in 1..Len(SkuList)}

\* The characters \w matches, among those the SKUs are made of.
WordChars == {"A", "B", "C", "K", "L", "O", "S", "U", "1", "_"}

\* The capture of (\w+) at the start of a string: its longest word prefix.
RECURSIVE WordPrefix(_)
WordPrefix(str) ==
    IF str = <<>> \/ Head(str) \notin WordChars THEN <<>>
    ELSE <<Head(str)>> \o WordPrefix(Tail(str))

ForecastTenths == {0, 15, 200}
Recommendations == {"Increase", "Reduce", "increase", "reduce", "Maintain"}
OutputFormats == {"one line per SKU", "one line per field"}

InOrder(skus) == SelectSeq(SkuList, LAMBDA s : s \in skus)

\* predict(): a SKU is in results when it is in both inputs, and in excluded
\* with a reason otherwise.
PredictResults(salesSkus, inventorySkus) == InOrder(salesSkus \cap inventorySkus)

PredictExcluded(salesSkus, inventorySkus) ==
    LET ex == InOrder((salesSkus \cup inventorySkus) \ (salesSkus \cap inventorySkus))
    IN  [i \in 1..Len(ex) |->
            [sku |-> ex[i],
             reason |-> IF ex[i] \in salesSkus THEN "missing inventory"
                        ELSE "missing sales"]]

\* One line of stdout: the labels it contains and the values after them.
Line(labels, sku, forecast, rec) ==
    [labels |-> labels, sku |-> sku, forecast |-> forecast, recommendation |-> rec]

ResultLines(format, sku, forecast, rec) ==
    IF format = "one line per SKU"
    THEN <<Line({"SKU:", "Forecast:", "Recommendation:"}, sku, forecast, rec)>>
    ELSE <<Line({"SKU:"}, sku, 0, ""),
           Line({"Forecast:"}, <<>>, forecast, ""),
           Line({"Recommendation:"}, <<>>, 0, rec)>>

RECURSIVE Flatten(_)
Flatten(seqs) == IF seqs = <<>> THEN <<>> ELSE Head(seqs) \o Flatten(Tail(seqs))

\* What the script can print for the two inputs.
ScriptOutputs(salesSkus, inventorySkus) ==
    LET res == PredictResults(salesSkus, inventorySkus)
        ex == PredictExcluded(salesSkus, inventorySkus)
        n == Len(res)
    IN  {Flatten([i \in 1..n |-> ResultLines(format, res[i], fc[i], rc[i])])
           \o [i \in 1..Len(ex) |-> Line({"Excluded:"}, ex[i].sku, 0, ex[i].reason)] :
            format \in OutputFormats,
            fc \in [1..n -> ForecastTenths],
            rc \in [1..n -> Recommendations]}

\* line.includes('SKU:') && line.includes('Forecast:'), then
\* /SKU: (\w+).*Forecast: ([\d.]+).*Recommendation: (\w+)/.
RECURSIVE parsePredictionsOutput(_)
parsePredictionsOutput(lines) ==
    IF lines = <<>> THEN <<>>
    ELSE LET line == Head(lines)
             match == /\ {"SKU:", "Forecast:", "Recommendation:"} \subseteq line.labels
                      /\ WordPrefix(line.sku) # <<>>
         IN  (IF match
              THEN <<[sku |-> WordPrefix(line.sku), forecast |-> line.forecast,
                      recommendation |-> line.recommendation]>>
              ELSE <<>>)
             \o parsePredictionsOutput(Tail(lines))

\* Rows of table products: stock columns with the schema's default levels,
\* and one row whose max_stock_level is below its stock.
StockProfiles ==
    {[current_stock |-> 0, min_stock_level |-> 10, max_stock_level |-> 1000],
     [current_stock |-> 12, min_stock_level |-> 10, max_stock_level |-> 1000],
     [current_stock |-> 12, min_stock_level |-> 10, max_stock_level |-> 11]}

ProductRow(sku, stock) ==
    [sku |-> sku, current_stock |-> stock.current_stock,
     min_stock_level |-> stock.min_stock_level,
     max_stock_level |-> stock.max_stock_level]

\* products.sku is UNIQUE.
ProductTables ==
    {t \in [Products -> {ProductRow(s, st) : s \in Skus, st \in StockProfiles}] :
        \A p, q \in Products : p # q => t[p].sku # t[q].sku}

\* TrendWiseService.createInventoryAlert: the alert rows it inserts.
createInventoryAlert(productId, product, prediction) ==
    LET alertType ==
            IF prediction.recommendation = "increase"
               /\ product.current_stock < product.min_stock_level
            THEN "low_stock"
            ELSE IF prediction.recommendation = "reduce"
                    /\ product.current_stock > product.max_stock_level
            THEN "overstock"
            ELSE IF prediction.recommendation = "increase"
                    /\ 2 * prediction.forecast > 30 * product.current_stock
            THEN "high_demand"
            ELSE "null"
    IN  IF alertType = "null" THEN <<>>
        ELSE <<[product_id |-> productId, alert_type |-> alertType]>>

\* The forecastData savePredictionsToDB hands to createForecast; forecast is
\* in tenths.
PredictionRecord(productId, leadTimeDays, prediction) ==
    [product_id |-> productId, forecast_day |-> leadTimeDays,
     predicted_demand |-> RoundDiv(prediction.forecast, 10),
     confidence_score |-> 850,
     lower_bound |-> RoundDiv(prediction.forecast * 8, 100),
     upper_bound |-> RoundDiv(prediction.forecast * 12, 100),
     model_version |-> "trendwise_v1.0"]

\* TrendWiseService.savePredictionsToDB; the failAt-th call of createForecast
\* fails (none when failAt = 0) and the error is thrown.
RECURSIVE savePredictionsToDB(_, _, _, _)
savePredictionsToDB(predictions, table, leadTimeDays, failAt) ==
    IF predictions = <<>>
    THEN [ok |-> TRUE, produced |-> <<>>, persisted |-> <<>>, alerts |-> <<>>]
    ELSE LET prediction == predictions[Len(predictions)]
             before == savePredictionsToDB(SubSeq(predictions, 1, Len(predictions) - 1),
                                           table, leadTimeDays, failAt)
             found == {p \in DOMAIN table : table[p].sku = prediction.sku}
         IN  IF ~before.ok \/ Cardinality(found) # 1 THEN before
             ELSE LET id == CHOOSE p \in found : TRUE
                      forecastData == PredictionRecord(id, leadTimeDays, prediction)
                  IN  IF Len(before.produced) + 1 = failAt
                      THEN [before EXCEPT !.ok = FALSE,
                                          !.produced = Append(@, forecastData)]
                      ELSE [ok |-> TRUE,
                            produced |-> Append(before.produced, forecastData),
                            persisted |-> Append(before.persisted, forecastData),
                            alerts |-> before.alerts
                                \o createInventoryAlert(id, table[id], prediction)]

LeadTimeDays == 7

\* The SKUs of the rows fetchSalesDataFromDB returns, and those of
\* fetchInventoryDataFromDB.
SalesSkusFromDB ==
    {products[p].sku : p \in {q \in DOMAIN products :
                                fetchSalesDataFromDB(sales_data[q], startDate) # <<>>}}
InventorySkusFromDB == {products[p].sku : p \in DOMAIN products}

PredictRequest(op, salesSkus, inventorySkus) ==
    [op |-> op, productId |-> "", model |-> "", days |-> LeadTimeDays,
     salesData |-> salesSkus, inventoryData |-> inventorySkus]

PredictHistories ==
    {<<>>, <<[sale_date |-> 1, quantity_sold |-> 1]>>,
     <<[sale_date |-> MaxDate, quantity_sold |-> 1]>>}

IdleTw == products = <<>> /\ inventory_alerts = <<>> /\ output = <<>>

InitPredict ==
    /\ products \in ProductTables
    /\ sales_data \in [Products -> PredictHistories]
    /\ demand_forecasts = <<>> /\ produced = <<>>
    /\ inventory_alerts = <<>> /\ output = <<>>
    /\ salesData = <<>> /\ startDate = MaxDate /\ dailySales = <<>>
    /\ IdleOp

\* POST /api/trendwise-db/predict: predictFromDB throws before the script
\* has produced its output.
PredictFromDBFail ==
    /\ pc = "predict"
    /\ request' = PredictRequest("TrendWiseService.predictFromDB",
                                 SalesSkusFromDB, InventorySkusFromDB)
    /\ \E details \in {"fetch failed", "Python script failed"}
                      \cup (IF SalesSkusFromDB = {}
                            THEN {"No sales data available for predictions"} ELSE {}) :
          /\ details = "Python script failed" => SalesSkusFromDB # {}
          /\ response' = [status |-> "500", error |-> details, body |-> <<>>]
    /\ pc' = "done"
    /\ UNCHANGED <<products, inventory_alerts, output, dbVars, idx, results,
                   recVars, selVars, aggVars, capVars, extVars>>

\* POST /api/trendwise-db/predict: predictFromDB runs the script, parses its
\* output and saves the predictions.
PredictFromDB ==
    /\ pc = "predict"
    /\ SalesSkusFromDB # {}
    /\ request' = PredictRequest("TrendWiseService.predictFromDB",
                                 SalesSkusFromDB, InventorySkusFromDB)
    /\ \E out \in ScriptOutputs(SalesSkusFromDB, InventorySkusFromDB) :
          LET predictions == parsePredictionsOutput(out)
          IN  \E failAt \in 0..Len(predictions) :
                 LET saved == savePredictionsToDB(predictions, products,
                                                  LeadTimeDays, failAt)
                 IN  /\ output' = out
                     /\ produced' = saved.produced
                     /\ demand_forecasts' = saved.persisted
                     /\ inventory_alerts' = saved.alerts
                     /\ response' =
                           IF saved.ok
                           THEN [status |-> "200", error |-> "", body |-> predictions]
                           ELSE [status |-> "500", error |-> "createForecast failed",
                                 body |-> <<>>]
    /\ pc' = "done"
    /\ UNCHANGED <<products, sales_data, idx, results, recVars, selVars, aggVars,
                   capVars, extVars>>

\* POST /predict of the upload routes without any file.
UploadPredictReject ==
    /\ pc = "upload"
    /\ request' = [op |-> "POST /predict", productId |-> "", model |-> "",
                   days |-> LeadTimeDays]
    /\ response' = [status |-> "400",
                    error |-> "Please upload sales and inventory data files",
                    body |-> <<>>]
    /\ pc' = "done"
    /\ UNCHANGED <<twVars, dbVars, idx, results, recVars, selVars, aggVars, capVars, extVars>>

\* POST /predict of the upload routes: the two files go to the script and
\* its parsed output is the response.
UploadPredict ==
    /\ pc = "upload"
    /\ \E salesSkus \in SUBSET Skus, inventorySkus \in SUBSET Skus :
          /\ request' = PredictRequest("POST /predict", salesSkus, inventorySkus)
          /\ \/ /\ response' = [status |-> "500", error |-> "Prediction failed",
                                body |-> <<>>]
                /\ UNCHANGED output
             \/ \E out \in ScriptOutputs(salesSkus, inventorySkus) :
                   /\ output' = out
                   /\ response' = [status |-> "200", error |-> "",
                                   body |-> parsePredictionsOutput(out)]
    /\ pc' = "done"
    /\ UNCHANGED <<products, inventory_alerts, dbVars, idx, results, recVars,
                   selVars, aggVars, capVars, extVars>>

\* The records fetchSalesDataFromDB returns for the demo: one per product
\* and date with a sale in the window; a product whose sales query answers
\* an error is skipped with a warning.
DemoSalesData(salesErrors) ==
    UNION {{<<p, i>> : i \in 1..Len(fetchSalesDataFromDB(sales_data[p], startDate))} :
           p \in DOMAIN products \ salesErrors}

(***************************************************************************)
(* POST /api/trendwise-db/auto-pipeline: training, then prediction         *)
(***************************************************************************)
restPipe == <<callVars, trainVars, frequency, csvRecords, safetyVars, fileVars,
             schedVars, clockVars>>

\* The request arrives: with skipTraining the handler goes to step 2.
AutoPipelineStart ==
    /\ pc = "pipeline"
    /\ \E skipTraining \in BOOLEAN :
          /\ request' = [op |-> "POST /auto-pipeline", productId |-> "", model |-> "",
                         days |-> LeadTimeDays, skipTraining |-> skipTraining]
          /\ steps' = IF skipTraining THEN <<"training skipped">> ELSE <<>>
          /\ pc' = IF skipTraining THEN "pipeline predict" ELSE "pipeline train"
    /\ UNCHANGED <<twVars, dbVars, idx, results, response, recVars, selVars, aggVars,
                   capVars, restPipe>>

\* Step 1: trainModelFromDB is called.
TrainModelFromDBStart ==
    /\ pc = "pipeline train"
    /\ steps' = Append(steps, "train started")
    /\ pc' = "training"
    /\ UNCHANGED <<twVars, dbVars, opVars, recVars, selVars, aggVars, capVars, restPipe>>

\* Prediction goes on whatever the training did.
AfterTrainingAlways(trained) == "pipeline predict"

\* await trainModelFromDB(...) inside the try of the handler: step 2 follows
\* a training that returned, the catch a training that threw.
AfterTraining(trained) == IF trained THEN "pipeline predict" ELSE "done"

\* trainModelFromDB returns, or throws: a query fails, there is no sales
\* record, the script fails.
TrainModelFromDBEnd ==
    /\ pc = "training"
    /\ \E trained \in BOOLEAN :
          /\ trained => SalesSkusFromDB # {}
          /\ steps' = Append(steps, IF trained THEN "train completed" ELSE "train failed")
          /\ response' = IF trained THEN response
                         ELSE [status |-> "500", error |-> "Auto pipeline failed",
                               body |-> <<>>]
          /\ pc' = AfterTraining(trained)
    /\ UNCHANGED <<twVars, dbVars, request, idx, results, recVars, selVars, aggVars,
                   capVars, restPipe>>

\* Step 2: predictFromDB is called.
AutoPipelinePredict ==
    /\ pc = "pipeline predict"
    /\ steps' = Append(steps, "predict started")
    /\ pc' = "predict"
    /\ UNCHANGED <<twVars, dbVars, opVars, recVars, selVars, aggVars, capVars, restPipe>>

(***************************************************************************)
(* Temporary CSV files of trainModelFromDB, predictFromDB and runDemoFromDB:*)
(* two operations of the service in flight.  A file of server/temp is      *)
(* named by its kind and the timestamp of its creation; tempFiles gives    *)
(* for each file the operation whose records it holds.                     *)
(***************************************************************************)
TempOps == {"op1", "op2"}

restFile == <<callVars, trainVars, frequency, csvRecords, safetyVars, pipeVars,
             schedVars, clockVars>>
otherVars == <<pc, recVars, selVars, aggVars, dbVars, opVars, twVars, capVars>>

\* sales_${timestamp}.csv and inventory_${timestamp}.csv
SalesFile(timestamp) == [kind |-> "sales", timestamp |-> timestamp]
InventoryFile(timestamp) == [kind |-> "inventory", timestamp |-> timestamp]

\* fs.writeFileSync(file, ...) by operation o; fs.unlinkSync(file).
WriteFile(files, file, o) ==
    [f \in DOMAIN files \cup {file} |-> IF f = file THEN o ELSE files[f]]
Unlink(files, file) == [f \in DOMAIN files \ {file} |-> files[f]]

\* The time passes by a millisecond.
Tick ==
    /\ pc = "temp"
    /\ now < MaxClock
    /\ now' = now + 1
    /\ UNCHANGED <<opPc, opStamp, opOutcome, opRead, tempFiles, restFile, otherVars>>

\* An operation is called and fetches the sales and the inventory: it
\* throws when a query fails or no sales record is found (runDemoFromDB
\* then runs the script without files).
TempOpFetch(o) ==
    /\ pc = "temp"
    /\ opPc[o] = "idle"
    /\ \/ /\ opPc' = [opPc EXCEPT ![o] = "create"]
          /\ UNCHANGED opOutcome
       \/ /\ opPc' = [opPc EXCEPT ![o] = "done"]
          /\ opOutcome' = [opOutcome EXCEPT ![o] = "thrown"]
    /\ UNCHANGED <<opStamp, opRead, tempFiles, now, restFile, otherVars>>

\* createTempCSVFiles: the sales file is written, then the inventory file;
\* a write that fails throws, outside the try ... finally of the caller.
CreateTempCSVFiles(o) ==
    /\ pc = "temp"
    /\ opPc[o] = "create"
    /\ \E written \in 0..2 :
          /\ tempFiles' =
                IF written = 0 THEN tempFiles
                ELSE IF written = 1 THEN WriteFile(tempFiles, SalesFile(now), o)
                ELSE WriteFile(WriteFile(tempFiles, SalesFile(now), o),
                               InventoryFile(now), o)
          /\ opPc' = [opPc EXCEPT ![o] = IF written = 2 THEN "script" ELSE "done"]
          /\ opOutcome' = [opOutcome EXCEPT ![o] = IF written = 2 THEN @ ELSE "thrown"]
    /\ opStamp' = [opStamp EXCEPT ![o] = now]
    /\ UNCHANGED <<opRead, now, restFile, otherVars>>

\* The script runs on the two files, then the output is parsed and saved:
\* any of these fails, or all succeed.  A file that is missing, or that
\* holds other records, is what the script gets.
RunOnTempFiles(o) ==
    /\ pc = "temp"
    /\ opPc[o] = "script"
    /\ LET mine == {SalesFile(opStamp[o]), InventoryFile(opStamp[o])}
       IN  /\ opRead' = [opRead EXCEPT ![o] =
                            {tempFiles[f] : f \in mine \cap DOMAIN tempFiles}]
           /\ \E outcome \in {"returned", "thrown"} :
                 /\ outcome = "returned" => mine \subseteq DOMAIN tempFiles
                 /\ opOutcome' = [opOutcome EXCEPT ![o] = outcome]
    /\ opPc' = [opPc EXCEPT ![o] = "cleanup"]
    /\ UNCHANGED <<opStamp, tempFiles, now, restFile, otherVars>>

\* cleanupTempFiles in the finally: each file that exists is unlinked; an
\* unlink that throws ends the cleanup with a warning.
CleanupTempFiles(o) ==
    /\ pc = "temp"
    /\ opPc[o] = "cleanup"
    /\ \E failAt \in 0..2 :
          LET afterSales == IF failAt = 1 THEN tempFiles
                            ELSE Unlink(tempFiles, SalesFile(opStamp[o]))
          IN  /\ failAt = 1 => SalesFile(opStamp[o]) \in DOMAIN tempFiles
              /\ failAt = 2 => InventoryFile(opStamp[o]) \in DOMAIN tempFiles
              /\ tempFiles' = IF failAt = 0
                              THEN Unlink(afterSales, InventoryFile(opStamp[o]))
                              ELSE afterSales
    /\ opPc' = [opPc EXCEPT ![o] = "done"]
    /\ UNCHANGED <<opStamp, opOutcome, opRead, now, restFile, otherVars>>

TempOperation ==
    \E o \in TempOps :
       \/ TempOpFetch(o)
       \/ CreateTempCSVFiles(o)
       \/ RunOnTempFiles(o)
       \/ CleanupTempFiles(o)

\* The marker always says 'database'.
DemoDataSourceFixed(salesData_length) == "database"

\* runDemoFromDB: salesData.length === 0 leads to generateSampleDataAndDemo
\* and its dataSource 'sample', anything else to dataSource 'database'.
DemoDataSource(salesData_length) ==
    IF salesData_length = 0 THEN "sample" ELSE "database"

\* POST /api/trendwise-db/demo: runDemoFromDB returns, or throws when a
\* query or the script fails.
RunDemoFromDB ==
    /\ pc = "demo"
    /\ \E salesErrors \in SUBSET DOMAIN products :
          /\ request' = [op |-> "TrendWiseService.runDemoFromDB", productId |-> "",
                         model |-> "", days |-> LeadTimeDays,
                         salesErrors |-> salesErrors]
          /\ \/ \E details \in {"fetch failed", "Python script failed"} :
                   response' = [status |-> "500", error |-> details, body |-> <<>>]
             \/ LET found == Cardinality(DemoSalesData(salesErrors))
                IN  response' = [status |-> "200", error |-> "", body |-> <<>>,
                                 dataSource |-> DemoDataSource(found),
                                 recordsProcessed |-> found]
    /\ pc' = "done"
    /\ UNCHANGED <<twVars, dbVars, idx, results, recVars, selVars, aggVars, capVars,
                   extVars>>

(***************************************************************************)
(* Preprocessor: outlier capping with the IQR fence.  The Python           *)
(* preprocessor is not part of the sources: this follows the               *)
(* specification, with quartiles by linear interpolation between order     *)
(* statistics.                                                             *)
(***************************************************************************)
FilledSeries == UNION {[1..n -> 0..MaxValue] : n \in 1..MaxLen}

\* Four times the q-th quartile (q = 1 or 3) of a sorted series.
Quartile4(sorted, q) ==
    LET h == q * (Len(sorted) - 1)
        k == h \div 4
        r == h % 4
    IN  IF r = 0 THEN 4 * sorted[k + 1]
        ELSE 4 * sorted[k + 1] + r * (sorted[k + 2] - sorted[k + 1])

\* Eight times Q1 - 1.5 * IQR and Q3 + 1.5 * IQR.
LowerFence8(xs) ==
    LET q1 == Quartile4(SortInts(xs), 1)
        q3 == Quartile4(SortInts(xs), 3)
    IN  2 * q1 - 3 * (q3 - q1)

UpperFence8(xs) ==
    LET q1 == Quartile4(SortInts(xs), 1)
        q3 == Quartile4(SortInts(xs), 3)
    IN  2 * q3 + 3 * (q3 - q1)

\* Capping that leaves low outliers alone.
CapUpperOnly(xs) ==
    [i \in 1..Len(xs) |->
        IF 8 * xs[i] > UpperFence8(xs) THEN UpperFence8(xs) ELSE 8 * xs[i]]

\* Each point outside the fence is replaced by the nearest fence value; the
\* result is in eighths.
CapOutliers(xs) ==
    [i \in 1..Len(xs) |->
        IF 8 * xs[i] < LowerFence8(xs) THEN LowerFence8(xs)
        ELSE IF 8 * xs[i] > UpperFence8(xs) THEN UpperFence8(xs)
        ELSE 8 * xs[i]]

IdleCap == filled = <<>> /\ capped = <<>>

InitCap == filled \in FilledSeries /\ capped = <<>>

CapSeries ==
    /\ pc = "cap"
    /\ capped' = CapOutliers(filled)
    /\ pc' = "capped"
    /\ UNCHANGED <<filled, recVars, selVars, aggVars, dbVars, opVars, twVars, extVars>>

(***************************************************************************)
(* Giving up on a batch.  No operation takes a timeout or cancellation     *)
(* token: the caller can only abandon the request, and the prediction     *)
(* script can only be terminated from outside.                             *)
(***************************************************************************)
NotCancelled == 0 - 1

NoCall == [request |-> NoRequest, produced |-> <<>>, response |-> NoResponse]

\* No training run: no kind is fitted and there is no handle.
NoFit == [fitted_on |-> {}, scored_on |-> {}, num |-> 0, den |-> 1]

IdleTrain ==
    /\ trainSeries = <<>> /\ holdoutSize = 0
    /\ fits = [k \in ModelKinds |-> NoFit]
    /\ handle = [model_kind |-> "none", fit |-> NoFit, validation_error |-> 0]

(***************************************************************************)
(* AlertService: the duplicate check of createAlert                        *)
(***************************************************************************)

\* The clock of the alert checks counts half days: 24 * 60 * 60 * 1000 ms.
AlertWindow == 2
AlertsLimit == 10
AlertTypes == {"low_stock", "overstock", "high_demand"}

alertRest ==
    <<pc, recVars, selVars, aggVars, dbVars, opVars, products, output, capVars,
      callVars, trainVars, frequency, csvRecords, safetyVars, pipeVars,
      opPc, opStamp, opOutcome, opRead, tempFiles, schedVars, clockVars>>

\* dbHelpers.getAlerts(isRead, limit): newest first, only the rows whose
\* is_read equals isRead, at most limit of them.  The table is kept in
\* insertion order, which is the order of created_at.
getAlerts(isRead, limit) ==
    LET n == Len(inventory_alerts)
        newestFirst == [i \in 1..n |-> inventory_alerts[n + 1 - i]]
        matching == SelectSeq(newestFirst, LAMBDA alert : alert.is_read = isRead)
    IN  SubSeq(matching, 1, IF Len(matching) < limit THEN Len(matching) ELSE limit)

\* The find() of createAlert: a similar alert of the last 24 hours.
RecentAlert(existingAlerts, productId, alertType) ==
    \E i \in DOMAIN existingAlerts :
       /\ existingAlerts[i].product_id = productId
       /\ existingAlerts[i].alert_type = alertType
       /\ existingAlerts[i].created_at > now - AlertWindow

\* Time passes between two alert checks.
AlertTime ==
    /\ pc = "alerts"
    /\ now < MaxAlertTime
    /\ now' = now + 1
    /\ UNCHANGED <<inventory_alerts, alertRest>>

\* AlertService.createAlert, called by checkProductAlerts for a product
\* and a type whose condition holds; a failing query or insert is caught
\* and the call returns null.
CreateAlert ==
    /\ pc = "alerts"
    /\ Len(inventory_alerts) < MaxAlerts
    /\ \E productId \in Products, alertType \in AlertTypes, fails \in BOOLEAN :
          inventory_alerts' =
             IF fails \/ RecentAlert(getAlerts(FALSE, AlertsLimit), productId, alertType)
             THEN inventory_alerts
             ELSE Append(inventory_alerts,
                         [product_id |-> productId, alert_type |-> alertType,
                          created_at |-> now, is_read |-> FALSE])
    /\ UNCHANGED <<now, alertRest>>

\* dbHelpers.markAlertAsRead(alertId).
MarkAlertAsRead ==
    /\ pc = "alerts"
    /\ \E alertId \in DOMAIN inventory_alerts :
          /\ ~inventory_alerts[alertId].is_read
          /\ inventory_alerts' = [inventory_alerts EXCEPT ![alertId].is_read = TRUE]
    /\ UNCHANGED <<now, alertRest>>

(***************************************************************************)
(* ScheduledUpdateService                                                  *)
(***************************************************************************)

TimerNames ==
    <<"hourlyAlertCheck", "dailyInventoryReport", "weeklyForecastUpdate",
      "systemHealthCheck">>

\* One minute, and with it the 60 * 1000 ms of the polling timer, is two
\* ticks of the clock; the day of the model has three minutes, and minute 1
\* is the one with getHours() === 8 && getMinutes() === 0.
MinuteTicks == 2
PollTicks == MinuteTicks
DayMinutes == 3
ReportMinute == 1

IsReportMinute(t) == (t % (DayMinutes * MinuteTicks)) \div MinuteTicks = ReportMinute

schedRest ==
    <<pc, recVars, selVars, aggVars, dbVars, opVars, twVars, capVars,
      callVars, trainVars, frequency, csvRecords, safetyVars, pipeVars, fileVars>>

\* start() without its guard.
AlreadyRunningNever(running) == FALSE

\* if (this.isRunning) return, of start().
AlreadyRunning(running) == running

\* ScheduledUpdateService.start, reached by POST /scheduler/start and by
\* the start of the server.
SchedulerStart ==
    /\ pc = "scheduler"
    /\ IF AlreadyRunning(isRunning)
       THEN /\ consoleLog' = "Already running"
            /\ UNCHANGED <<isRunning, intervals, timers, timerSeq, due, runningSince>>
       ELSE /\ timerSeq + Len(TimerNames) <= MaxTimers
            /\ isRunning' = TRUE
            /\ intervals' = [n \in DOMAIN intervals \cup {TimerNames[i] : i \in DOMAIN TimerNames} |->
                               IF \E i \in DOMAIN TimerNames : TimerNames[i] = n
                               THEN timerSeq + (CHOOSE i \in DOMAIN TimerNames : TimerNames[i] = n)
                               ELSE intervals[n]]
            /\ timers' = timers \cup {timerSeq + i : i \in DOMAIN TimerNames}
            /\ timerSeq' = timerSeq + Len(TimerNames)
            /\ due' = wallClock + PollTicks
            /\ runningSince' = wallClock
            /\ consoleLog' = "All scheduled tasks initialized"
    /\ UNCHANGED <<wallClock, reports, schedRest>>

\* ScheduledUpdateService.stop, reached by POST /scheduler/stop.
SchedulerStop ==
    /\ pc = "scheduler"
    /\ IF ~isRunning
       THEN /\ consoleLog' = "Not running"
            /\ UNCHANGED <<isRunning, intervals, timers, due, runningSince>>
       ELSE /\ timers' = timers \ {intervals[n] : n \in DOMAIN intervals}
            /\ intervals' = <<>>
            /\ isRunning' = FALSE
            /\ due' = 0 /\ runningSince' = 0
            /\ consoleLog' = "Stopping scheduled update service"
    /\ UNCHANGED <<timerSeq, wallClock, reports, schedRest>>

\* Time passes; the callback of the polling timer runs at most MaxDrift
\* ticks after it is due.
ClockAdvance ==
    /\ pc = "scheduler"
    /\ wallClock < MaxTime
    /\ isRunning => wallClock < due + MaxDrift
    /\ wallClock' = wallClock + 1
    /\ UNCHANGED <<due, runningSince, reports, schedVars, schedRest>>

\* The callback of scheduleDailyInventoryReport; the runtime counts the
\* next 60 seconds from the moment the callback runs.
DailyReportPoll ==
    /\ pc = "scheduler"
    /\ "dailyInventoryReport" \in DOMAIN intervals
    /\ intervals["dailyInventoryReport"] \in timers
    /\ wallClock >= due
    /\ reports' = IF IsReportMinute(wallClock) THEN reports \cup {wallClock}
                  ELSE reports
    /\ due' = wallClock + PollTicks
    /\ UNCHANGED <<wallClock, runningSince, schedVars, schedRest>>

IdleSafety == demand_std = 0 /\ lead_time_days = 0

IdlePipe == steps = <<>>

IdleFile ==
    /\ opPc = [o \in TempOps |-> "idle"]
    /\ opStamp = [o \in TempOps |-> 0]
    /\ opOutcome = [o \in TempOps |-> "none"]
    /\ opRead = [o \in TempOps |-> {}]
    /\ tempFiles = <<>>
    /\ now = 0

IdleSched ==
    /\ isRunning = FALSE /\ intervals = <<>> /\ timers = {} /\ timerSeq = 0
    /\ consoleLog = "" /\ wallClock = 0 /\ due = 0 /\ runningSince = 0
    /\ reports = {}

IdleLate == IdlePipe /\ IdleFile /\ IdleSched

IdleMore == frequency = "none" /\ csvRecords = <<>> /\ IdleSafety /\ IdleLate

IdleCalls ==
    /\ cancelledAt = NotCancelled /\ previous = NoCall
    /\ randomStream = <<>> /\ drawn = 0

\* The caller gives up while a bulk loop runs (request aborted or timed
\* out); neither loop reads anything the caller can set.
CancelBatch ==
    /\ pc = "looping"
    /\ cancelledAt = NotCancelled
    /\ cancelledAt' = idx
    /\ UNCHANGED <<pc, previous, randomStream, drawn, trainVars, moreVars, recVars, selVars, aggVars, dbVars, opVars, twVars, capVars>>

\* runPythonScript when the script is terminated after it has printed the
\* first k lines: 'close' arrives with a code other than 0, the promise is
\* rejected and predictFromDB rethrows; the output collected so far is lost.
PredictFromDBKilled ==
    /\ pc = "predict"
    /\ SalesSkusFromDB # {}
    /\ cancelledAt = NotCancelled
    /\ request' = PredictRequest("TrendWiseService.predictFromDB",
                                 SalesSkusFromDB, InventorySkusFromDB)
    /\ \E out \in ScriptOutputs(SalesSkusFromDB, InventorySkusFromDB) :
       \E k \in 0..Len(out) :
          /\ output' = SubSeq(out, 1, k)
          /\ cancelledAt' = k
    /\ UNCHANGED <<previous, randomStream, drawn, trainVars, moreVars>>
    /\ response' = [status |-> "500", error |-> "Python script failed with code null",
                    body |-> <<>>]
    /\ pc' = "done"
    /\ UNCHANGED <<products, inventory_alerts, dbVars, idx, results, recVars,
                   selVars, aggVars, capVars>>

\* The caller repeats a forecast call that has returned: same tables of
\* products and sales, the forecasts saved so far stay.
CallAgain ==
    /\ pc = "done"
    /\ previous = NoCall
    /\ response.status \in {"returned", "200"}
    /\ previous' = [request |-> request, produced |-> produced, response |-> response]
    /\ request' = NoRequest
    /\ response' = NoResponse
    /\ pc' = "forecast"
    /\ UNCHANGED <<cancelledAt, randomStream, drawn, trainVars, moreVars, dbVars, idx, results, recVars,
                   selVars, aggVars, twVars, capVars>>

CancelHistories ==
    {<<>>, [i \in 1..MinSalesRecords |-> [sale_date |-> i, quantity_sold |-> MaxQty]]}

InitCancel ==
    \/ /\ pc = "batch"
       /\ sales_data \in [BatchProducts -> CancelHistories]
       /\ demand_forecasts = <<>> /\ produced = <<>>
       /\ IdleOp /\ IdleAgg /\ IdleTw
    \/ /\ pc = "predict"
       /\ InitPredict

(***************************************************************************)
(* Bulk generation with the generator of Math.random() made explicit: one  *)
(* stream of draws per process, shared by every product of the batch.      *)
(***************************************************************************)
\* Math.random() in hundredths.
RandomDraws == {0, 50, 99}
RandomStreams == [1..(Len(ProductList) * MaxDays) -> RandomDraws]

\* productIds of generateBulkForecasts: any order, any subset.
ProductIdLists ==
    {l \in SeqsUpTo(Products, Len(ProductList)) :
        /\ l # <<>>
        /\ \A i, j \in 1..Len(l) : i # j => l[i] # l[j]}

SeededHistories ==
    {<<>>,
     [i \in 1..MinSalesRecords |->
        [sale_date |-> i, quantity_sold |-> IF 2 * i < MinSalesRecords THEN 1 ELSE MaxQty]]}

\* simpleMovingAverage, one day: the mean of the last 7 points times
\* 1 + (draw - 0.5) * 0.1, rounded.
simpleMovingAverageAt(series, draw) ==
    LET recentValues == SliceLast(Quantity(series), MovingAverageWindow)
    IN  MathMax0(RoundDiv(SumSeq(recentValues) * (950 + draw),
                          Len(recentValues) * 1000))

\* generateBulkForecasts(productIds, 'simple_moving_average') with the
\* database up, the stream read from position at + 1 on: the entries
\* pushed, the forecastData saved and the draws used.
RECURSIVE SeededBulkRun(_, _, _, _)
SeededBulkRun(productIds, days, stream, at) ==
    IF productIds = <<>>
    THEN [results |-> <<>>, produced |-> <<>>, at |-> at]
    ELSE LET before == SeededBulkRun(SubSeq(productIds, 1, Len(productIds) - 1),
                                     days, stream, at)
             productId == productIds[Len(productIds)]
             rows == getSalesData(productId, SalesLimit)
             dailySeries == aggregateDailySales(rows)
             predictions == [i \in 1..days |->
                                simpleMovingAverageAt(dailySeries, stream[before.at + i])]
         IN  IF Len(rows) < MinSalesRecords
             THEN [before EXCEPT !.results =
                      Append(@, [productId |-> productId, success |-> FALSE,
                                 error |-> "Insufficient historical data for forecasting"])]
             ELSE [results |-> Append(before.results,
                                      [productId |-> productId, success |-> TRUE,
                                       error |-> ""]),
                   produced |-> before.produced
                       \o ServiceRecords(productId, "simple_moving_average",
                                         predictions, dailySeries),
                   at |-> before.at + days]

InitSeeded ==
    /\ sales_data \in [Products -> SeededHistories]
    /\ demand_forecasts = <<>> /\ produced = <<>>
    /\ randomStream \in RandomStreams /\ drawn = 0
    /\ cancelledAt = NotCancelled /\ previous = NoCall
    /\ IdleOp /\ IdleTrain /\ IdleMore

SeededBulk ==
    /\ pc = "seeded"
    /\ \E productIds \in ProductIdLists, days \in 1..MaxDays :
          LET run == SeededBulkRun(productIds, days, randomStream, drawn) IN
          /\ request' = [op |-> "ForecastService.generateBulkForecasts",
                         productId |-> "", model |-> "simple_moving_average",
                         days |-> days, productIds |-> productIds]
          /\ results' = run.results
          /\ produced' = produced \o run.produced
          /\ demand_forecasts' = demand_forecasts \o run.produced
          /\ drawn' = run.at
          /\ response' = [status |-> "returned", error |-> "", body |-> run.results]
    /\ pc' = "done"
    /\ UNCHANGED <<sales_data, idx, randomStream, cancelledAt, previous, trainVars, moreVars, recVars,
                   selVars, aggVars, twVars, capVars>>

\* The server is started again with the same seed (node --random-seed) and
\* the same tables of products and sales.
RestartSeeded ==
    /\ pc = "done"
    /\ previous = NoCall
    /\ request.op = "ForecastService.generateBulkForecasts"
    /\ previous' = [request |-> request, produced |-> produced, response |-> response]
    /\ request' = NoRequest /\ response' = NoResponse /\ results' = <<>>
    /\ drawn' = 0
    /\ pc' = "seeded"
    /\ UNCHANGED <<dbVars, idx, randomStream, cancelledAt, trainVars, moreVars, recVars, selVars, aggVars,
                   twVars, capVars>>

(***************************************************************************)
(* Model Selector: holdout validation and refit.  The training code is     *)
(* Python that is not part of the sources; this follows the design         *)
(* document (4.3).  The fits of the Seasonal and Exponential Smoothing     *)
(* models are not reproduced: their holdout MAPE is any value around the   *)
(* threshold.  Naive and Moving Average are fitted and scored exactly.     *)
(***************************************************************************)
MaxHoldout == 30
HoldoutDivisor == 5
MinTrainLen == 12

\* Series of the training runs: one level, then another over the last
\* periods.
TrainSeriesSet ==
    {[i \in 1..len |-> IF i <= len - k THEN a ELSE b] :
        len \in MinTrainLen..MaxTrainLen, k \in {1, 3},
        a \in 1..MaxQty, b \in 0..MaxQty}

\* A holdout of 30 periods whatever the length.
HoldoutSizeFixed(len) == MaxHoldout

HoldoutSize(len) == Min(MaxHoldout, len \div HoldoutDivisor)

\* fit(series) on the periods lo..hi: the periods seen and the level of the
\* flat forecast, num / den (Naive: last value; Moving Average: mean of the
\* trailing 7 periods; not reproduced for the other kinds).
Fit(kind, xs, lo, hi) ==
    LET window == (Max(lo, hi - MovingAverageWindow + 1))..hi
        seen == [i \in 1..(hi - lo + 1) |-> xs[lo + i - 1]]
    IN  [fitted_on |-> lo..hi, scored_on |-> {},
         num |-> IF kind = "Naive" THEN xs[hi]
                 ELSE IF kind = "MovingAverage"
                 THEN SumSeq(SliceLast(seen, MovingAverageWindow))
                 ELSE 0,
         den |-> IF kind = "MovingAverage" THEN Cardinality(window) ELSE 1]

RECURSIVE Factorial(_)
Factorial(n) == IF n <= 1 THEN 1 ELSE n * Factorial(n - 1)

Abs(x) == IF x < 0 THEN 0 - x ELSE x

\* Sum over the periods lo..hi of |actual - level| / actual, times
\* Factorial(MaxQty) * den.
RECURSIVE AbsPctErrors(_, _, _, _)
AbsPctErrors(fit, xs, lo, hi) ==
    IF hi < lo THEN 0
    ELSE AbsPctErrors(fit, xs, lo, hi - 1)
         + Abs(xs[hi] * fit.den - fit.num) * (Factorial(MaxQty) \div xs[hi])

\* The MAPE is undefined when an actual value of the holdout is 0.
Degenerate(xs, lo, hi) == \E i \in lo..hi : xs[i] = 0

\* MAPE of a fitted flat forecast on the periods lo..hi, in percent,
\* rounded up.
Mape(fit, xs, lo, hi) ==
    IF Degenerate(xs, lo, hi) THEN NaN
    ELSE CeilDiv(100 * AbsPctErrors(fit, xs, lo, hi),
                 Factorial(MaxQty) * fit.den * (hi - lo + 1))

\* The holdout MAPEs a model kind can obtain.
HoldoutMapes(kind, fit, xs, lo, hi) ==
    IF Degenerate(xs, lo, hi) THEN {NaN}
    ELSE IF kind \in {"Naive", "MovingAverage"} THEN {Mape(fit, xs, lo, hi)}
    ELSE MapeValues

\* The refit keeps to the training remainder.
RefitRemainder(xs, h) == Len(xs) - h

\* The last period of the refit: the full series.
RefitEnd(xs, h) == Len(xs)

InitTrain ==
    /\ trainSeries \in TrainSeriesSet
    /\ holdoutSize = 0
    /\ fits = [k \in ModelKinds |-> NoFit]
    /\ handle = [model_kind |-> "none", fit |-> NoFit, validation_error |-> 0]
    /\ mape = [k \in ModelKinds |-> MapeThreshold]
    /\ model_used = "none"

\* Reserve the trailing periods as the validation holdout.
ReserveHoldout ==
    /\ pc = "train"
    /\ holdoutSize' = HoldoutSize(Len(trainSeries))
    /\ pc' = "reserved"
    /\ UNCHANGED <<moreVars, trainSeries, fits, handle, cancelledAt, previous, randomStream,
                   drawn, recVars, selVars, aggVars, dbVars, opVars, twVars, capVars>>

\* A kind fitted on the remainder, before the holdout, and the periods it
\* is scored on.
ValidationFit(kind) ==
    LET split == Len(trainSeries) - holdoutSize
    IN  [Fit(kind, trainSeries, 1, split)
            EXCEPT !.scored_on = (split + 1)..Len(trainSeries)]

ValidationMapes(kind) ==
    LET split == Len(trainSeries) - holdoutSize
    IN  HoldoutMapes(kind, Fit(kind, trainSeries, 1, split),
                     trainSeries, split + 1, Len(trainSeries))

ValidateSeasonal ==
    /\ pc = "reserved"
    /\ fits' = [fits EXCEPT !["Seasonal"] = ValidationFit("Seasonal")]
    /\ \E score \in ValidationMapes("Seasonal") :
          mape' = [mape EXCEPT !["Seasonal"] = score]
    /\ pc' = "seasonal scored"
    /\ UNCHANGED <<moreVars, trainSeries, holdoutSize, handle, model_used, cancelledAt, previous,
                   randomStream, drawn, recVars, aggVars, dbVars, opVars, twVars,
                   capVars>>

SeasonalAccepted == IsNumber(mape["Seasonal"]) /\ mape["Seasonal"] <= MapeThreshold

\* Seasonal is above the threshold: the three fallbacks are fitted on the
\* remainder and scored on the holdout.
ValidateFallbacks ==
    /\ pc = "seasonal scored"
    /\ ~SeasonalAccepted
    /\ fits' = [k \in ModelKinds |->
                  IF k = "Seasonal" THEN fits[k] ELSE ValidationFit(k)]
    /\ \E scores \in [ModelKinds -> MapeValues \cup {NaN}
                                     \cup ValidationMapes("MovingAverage")
                                     \cup ValidationMapes("Naive")] :
          /\ scores["Seasonal"] = mape["Seasonal"]
          /\ \A k \in ModelKinds \ {"Seasonal"} : scores[k] \in ValidationMapes(k)
          /\ mape' = scores
    /\ pc' = "fallbacks scored"
    /\ UNCHANGED <<moreVars, trainSeries, holdoutSize, handle, model_used, cancelledAt, previous,
                   randomStream, drawn, recVars, aggVars, dbVars, opVars, twVars,
                   capVars>>

\* The winner: Naive for a degenerate series, else the selector's choice.
Winner(m) ==
    IF \E k \in ModelKinds : ~IsNumber(m[k]) THEN "Naive" ELSE SelectModel(m)

\* The winning kind is refitted and becomes the handle.
SelectAndRefit ==
    /\ \/ pc = "seasonal scored" /\ SeasonalAccepted
       \/ pc = "fallbacks scored"
    /\ model_used' = Winner(mape)
    /\ handle' = [model_kind |-> Winner(mape),
                  fit |-> Fit(Winner(mape), trainSeries, 1,
                              RefitEnd(trainSeries, holdoutSize)),
                  validation_error |-> mape[Winner(mape)]]
    /\ pc' = "trained"
    /\ UNCHANGED <<moreVars, trainSeries, holdoutSize, fits, mape, cancelledAt, previous,
                   randomStream, drawn, recVars, aggVars, dbVars, opVars, twVars,
                   capVars>>

(***************************************************************************)
(* Preprocessor, steps 2 to 4: one point per date, cadence detection,      *)
(* weekly resampling and the gap-free calendar.  The Python preprocessor   *)
(* is not part of the sources (its README names "auto-frequency            *)
(* detection"); this follows the design document.                          *)
(***************************************************************************)
CadenceDates == {1, 2, 4, 8, 9, 15}
CadenceRecords == [sale_date : CadenceDates, quantity_sold : 1..MaxQty]

\* The quantities of the grouped points that fall in a period.
RECURSIVE SumInPeriod(_, _, _)
SumInPeriod(cad, grouped, period) ==
    IF grouped = <<>> THEN 0
    ELSE (IF PeriodOf(cad, Head(grouped).date) = period
          THEN Head(grouped).quantity ELSE 0)
         + SumInPeriod(cad, Tail(grouped), period)

\* Every period from the first to the last, with the sum of its points
\* (0 when it has none).
Reindex(cad, grouped) ==
    LET first == PeriodOf(cad, grouped[1].date)
        last == PeriodOf(cad, grouped[Len(grouped)].date)
    IN  [i \in 1..(last - first + 1) |->
            [date |-> first + i - 1,
             quantity |-> SumInPeriod(cad, grouped, first + i - 1)]]

InitPrep ==
    /\ salesData \in (SeqsUpTo(CadenceRecords, MaxSales) \ {<<>>})
    /\ startDate = 1 /\ dailySales = <<>>
    /\ frequency = "none" /\ csvRecords = <<>> /\ IdleSafety /\ IdleLate

Preprocess ==
    /\ pc = "preprocess"
    /\ LET grouped == aggregateDailySales(salesData)
           cad == DetectCadence([i \in 1..Len(grouped) |-> grouped[i].date])
       IN  /\ frequency' = cad
           /\ dailySales' = Reindex(cad, grouped)
    /\ pc' = "preprocessed"
    /\ UNCHANGED <<salesData, startDate, recVars, selVars, dbVars, opVars, twVars,
                   capVars, callVars, trainVars, csvRecords, safetyVars, lateVars>>

(***************************************************************************)
(* Confidence intervals of the forecasts of several products               *)
(***************************************************************************)
\* Histories of MaxHistory days, one sale a day.
ConfHistories ==
    {[i \in 1..MaxHistory |-> [sale_date |-> i, quantity_sold |-> q[i]]] :
        q \in QuantityPatterns(MaxHistory)}

InitConf ==
    /\ sales_data \in [Products -> ConfHistories]
    /\ demand_forecasts = <<>> /\ produced = <<>>
    /\ IdleOp

\* generateForecast up to calculateConfidenceIntervals, for the next product
\* and one day: the forecastData built from the prediction.
CalculateConfidence ==
    /\ pc = "confidence"
    /\ idx < Len(ProductList)
    /\ LET productId == ProductList[idx + 1]
           series == aggregateDailySales(getSalesData(productId, SalesLimit))
       IN  \E model \in ModelNames :
              \E predictions \in PredictionSeqs(model, series, 1) :
                 produced' = produced \o ServiceRecords(productId, model,
                                                       predictions, series)
    /\ idx' = idx + 1
    /\ UNCHANGED <<pc, twVars, capVars, extVars, sales_data, demand_forecasts,
                   request, results, response, recVars, selVars, aggVars>>

\* savePredictionsToDB: the forecastData built from a prediction of the
\* script.
ScorePrediction ==
    /\ pc = "confidence"
    /\ idx = Len(ProductList)
    /\ \E forecast \in ForecastTenths :
          produced' = Append(produced,
                             PredictionRecord(ProductList[1], LeadTimeDays,
                                              [forecast |-> forecast]))
    /\ pc' = "scored"
    /\ UNCHANGED <<twVars, capVars, extVars, sales_data, demand_forecasts, request,
                   idx, results, response, recVars, selVars, aggVars>>

(***************************************************************************)
(* The sales of one product on their way to the prediction script:         *)
(* fetchSalesDataFromDB groups the rows by date, createTempCSVFiles writes *)
(* one line per record; the script then loads the file.  sales_data has    *)
(* quantity_sold integer NOT NULL and sale_date date NOT NULL, without a   *)
(* CHECK: a stored row can be negative, its date cannot be unparseable.    *)
(***************************************************************************)
RawQuantities == (0 - 1)..MaxQty
RawDates == 1..2
RawSalesRecords == [sale_date : RawDates, quantity_sold : RawQuantities]

\* salesCSV.push(`${record.date},${record.sku},${record.sales_qty}`) for
\* every record: the fields of the lines after the header, for one SKU.
createTempCSVFiles(records) ==
    [i \in 1..Len(records) |->
        [date |-> records[i].date, sales_qty |-> records[i].quantity]]

\* Data Loader of the script: a record with a negative quantity is
\* malformed and skipped, the others are kept.
WellFormed(record) == record.sales_qty >= 0

RECURSIVE LoadSales(_)
LoadSales(lines) ==
    IF lines = <<>> THEN <<>>
    ELSE (IF WellFormed(Head(lines))
          THEN <<[date |-> Head(lines).date, quantity |-> Head(lines).sales_qty]>>
          ELSE <<>>)
         \o LoadSales(Tail(lines))

InitCsv ==
    /\ salesData \in SeqsUpTo(RawSalesRecords, MaxSales)
    /\ startDate = 1 /\ dailySales = <<>>
    /\ frequency = "none" /\ csvRecords = <<>> /\ IdleSafety /\ IdleLate

\* predictFromDB up to the start of the script: fetchSalesDataFromDB, then
\* createTempCSVFiles.
WriteSalesCsv ==
    /\ pc = "csv"
    /\ csvRecords' = createTempCSVFiles(fetchSalesDataFromDB(salesData, startDate))
    /\ pc' = "csv written"
    /\ UNCHANGED <<aggVars, frequency, safetyVars, lateVars, recVars, selVars, dbVars, opVars,
                   twVars, capVars, callVars, trainVars>>

\* The script loads the sales file.
LoadSalesCsv ==
    /\ pc = "csv written"
    /\ dailySales' = LoadSales(csvRecords)
    /\ pc' = "loaded"
    /\ UNCHANGED <<salesData, startDate, moreVars, recVars, selVars, dbVars,
                   opVars, twVars, capVars, callVars, trainVars>>

(***************************************************************************)
(* Recommendation Engine, step 2: the safety stock.  The documentation     *)
(* gives the formula z * demand_std * sqrt(lead_time_days) and the service *)
(* level of 80% (z = 1.28).                                                *)
(***************************************************************************)
\* z = 1.28, in hundredths.
ServiceLevelZ == 128
MinLeadTime == 1
MaxLeadTime == 30

\* z * demand_std * lead_time_days, without the square root.
SafetyStockLinear(std, lead) == ServiceLevelZ * std * lead

\* z * demand_std * sqrt(lead_time_days) in thousandths, rounded down;
\* std is in tenths.
SafetyStock(std, lead) == ISqrt(ServiceLevelZ * ServiceLevelZ * std * std * lead)

InitSafety ==
    /\ demand_std \in 0..MaxStd
    /\ lead_time_days \in MinLeadTime..MaxLeadTime
    /\ current_stock = 0 /\ point_forecast = 0 /\ safety_stock = 0
    /\ recommendation = "none"
    /\ frequency = "none" /\ csvRecords = <<>> /\ IdleLate

ComputeSafetyStock ==
    /\ pc = "safety"
    /\ safety_stock' = SafetyStock(demand_std, lead_time_days)
    /\ pc' = "safety computed"
    /\ UNCHANGED <<current_stock, point_forecast, recommendation, moreVars, selVars,
                   aggVars, dbVars, opVars, twVars, capVars, callVars, trainVars>>

IdleExt == IdleCalls /\ IdleTrain /\ IdleMore

IdleRec ==
    /\ current_stock = 0 /\ point_forecast = 0 /\ safety_stock = 0
    /\ recommendation = "none"

IdleSel ==
    /\ mape = [k \in ModelKinds |-> MapeThreshold]
    /\ model_used = "none"

(***************************************************************************)
(* Specifications                                                          *)
(***************************************************************************)
SpecRecInit == pc = "recommend" /\ InitRec /\ IdleSel /\ IdleAgg /\ IdleDb /\ IdleOp /\ IdleTw /\ IdleCap /\ IdleExt
SpecRecNext == RecommendStock
SpecRec == SpecRecInit /\ [][SpecRecNext]_vars

SpecSelInit == pc = "select" /\ InitSel /\ IdleRec /\ IdleAgg /\ IdleDb /\ IdleOp /\ IdleTw /\ IdleCap /\ IdleExt

SpecAggInit == pc = "aggregate" /\ InitAgg /\ IdleRec /\ IdleSel /\ IdleDb /\ IdleOp /\ IdleTw /\ IdleCap /\ IdleExt
SpecAggNext == AggregateDailySales \/ FetchSalesDataFromDB
SpecAgg == SpecAggInit /\ [][SpecAggNext]_vars
SpecSelNext == SelectWinner
SpecSel == SpecSelInit /\ [][SpecSelNext]_vars

SpecForecastInit == pc = "forecast" /\ InitForecast /\ IdleRec /\ IdleSel /\ IdleAgg /\ IdleTw /\ IdleCap /\ IdleExt
SpecForecastNext ==
    \/ ServiceGenerateForecast
    \/ ControllerRejectForecast
    \/ ControllerGenerateForecast
SpecForecast == SpecForecastInit /\ [][SpecForecastNext]_vars

SpecConstantInit ==
    /\ pc = "series" /\ InitConstant
    /\ IdleRec /\ IdleSel /\ IdleTw /\ IdleCap /\ IdleExt
SpecConstantNext == MovingAverageForecast
SpecConstant == SpecConstantInit /\ [][SpecConstantNext]_vars

SpecPipelineInit ==
    /\ pc = "pipeline" /\ InitPredict
    /\ IdleRec /\ IdleSel /\ IdleCap /\ IdleExt
SpecPipelineNext ==
    \/ AutoPipelineStart
    \/ TrainModelFromDBStart
    \/ TrainModelFromDBEnd
    \/ AutoPipelinePredict
    \/ PredictFromDBFail
    \/ PredictFromDB
SpecPipeline == SpecPipelineInit /\ [][SpecPipelineNext]_vars

SpecTempInit ==
    /\ pc = "temp"
    /\ IdleRec /\ IdleSel /\ IdleAgg /\ IdleDb /\ IdleOp /\ IdleTw /\ IdleCap /\ IdleExt
SpecTempNext ==
    \/ Tick
    \/ \E o \in TempOps : TempOpFetch(o)
    \/ \E o \in TempOps : CreateTempCSVFiles(o)
    \/ \E o \in TempOps : RunOnTempFiles(o)
    \/ \E o \in TempOps : CleanupTempFiles(o)
SpecTemp == SpecTempInit /\ [][SpecTempNext]_vars

SpecAlertInit ==
    /\ pc = "alerts"
    /\ IdleRec /\ IdleSel /\ IdleAgg /\ IdleDb /\ IdleOp /\ IdleTw /\ IdleCap /\ IdleExt
SpecAlertNext == AlertTime \/ CreateAlert \/ MarkAlertAsRead
SpecAlert == SpecAlertInit /\ [][SpecAlertNext]_vars

SpecSchedulerInit ==
    /\ pc = "scheduler"
    /\ IdleRec /\ IdleSel /\ IdleAgg /\ IdleDb /\ IdleOp /\ IdleTw /\ IdleCap /\ IdleExt
SpecSchedulerNext == SchedulerStart \/ SchedulerStop \/ ClockAdvance \/ DailyReportPoll
SpecScheduler == SpecSchedulerInit /\ [][SpecSchedulerNext]_vars

SpecDemoInit ==
    /\ pc = "demo" /\ InitPredict
    /\ IdleRec /\ IdleSel /\ IdleCap /\ IdleExt
SpecDemoNext == RunDemoFromDB
SpecDemo == SpecDemoInit /\ [][SpecDemoNext]_vars

SpecBatchInit == pc = "batch" /\ InitBatch /\ IdleRec /\ IdleSel /\ IdleAgg /\ IdleTw /\ IdleCap /\ IdleExt
SpecBatchNext ==
    \/ ServiceBulkStart
    \/ ServiceBulkStep
    \/ ServiceBulkReturn
    \/ ControllerBulkStart
    \/ ControllerBulkSkip
    \/ ControllerBulkStep
    \/ ControllerBulkRespond
SpecBatch == SpecBatchInit /\ [][SpecBatchNext]_vars

SpecPredictInit ==
    /\ \/ pc = "predict" /\ InitPredict
       \/ pc = "upload" /\ IdleAgg /\ IdleDb /\ IdleOp /\ IdleTw
    /\ IdleRec /\ IdleSel /\ IdleCap /\ IdleExt
SpecPredictNext ==
    \/ PredictFromDBFail
    \/ PredictFromDB
    \/ UploadPredictReject
    \/ UploadPredict
SpecPredict == SpecPredictInit /\ [][SpecPredictNext]_vars

SpecCapInit ==
    /\ pc = "cap" /\ InitCap
    /\ IdleRec /\ IdleSel /\ IdleAgg /\ IdleDb /\ IdleOp /\ IdleTw /\ IdleExt
SpecCapNext == CapSeries
SpecCap == SpecCapInit /\ [][SpecCapNext]_vars

SpecRepeatInit == SpecForecastInit
SpecRepeatNext ==
    \/ ServiceGenerateForecast
    \/ ControllerRejectForecast
    \/ ControllerGenerateForecast
    \/ CallAgain
SpecRepeat == SpecRepeatInit /\ [][SpecRepeatNext]_vars

SpecSeededInit ==
    /\ pc = "seeded" /\ InitSeeded
    /\ IdleRec /\ IdleSel /\ IdleAgg /\ IdleTw /\ IdleCap
SpecSeededNext == SeededBulk \/ RestartSeeded
SpecSeeded == SpecSeededInit /\ [][SpecSeededNext]_vars

SpecTrainInit ==
    /\ pc = "train" /\ InitTrain /\ IdleCalls /\ IdleMore
    /\ IdleRec /\ IdleAgg /\ IdleDb /\ IdleOp /\ IdleTw /\ IdleCap
SpecTrainNext ==
    \/ ReserveHoldout
    \/ ValidateSeasonal
    \/ ValidateFallbacks
    \/ SelectAndRefit
SpecTrain == SpecTrainInit /\ [][SpecTrainNext]_vars

SpecPrepInit ==
    /\ pc = "preprocess" /\ InitPrep /\ IdleCalls /\ IdleTrain
    /\ IdleRec /\ IdleSel /\ IdleDb /\ IdleOp /\ IdleTw /\ IdleCap
SpecPrepNext == Preprocess
SpecPrep == SpecPrepInit /\ [][SpecPrepNext]_vars

SpecConfInit ==
    /\ pc = "confidence" /\ InitConf
    /\ IdleRec /\ IdleSel /\ IdleAgg /\ IdleTw /\ IdleCap /\ IdleExt
SpecConfNext == CalculateConfidence \/ ScorePrediction
SpecConf == SpecConfInit /\ [][SpecConfNext]_vars

SpecSafetyInit ==
    /\ pc = "safety" /\ InitSafety /\ IdleCalls /\ IdleTrain
    /\ IdleSel /\ IdleAgg /\ IdleDb /\ IdleOp /\ IdleTw /\ IdleCap
SpecSafetyNext == ComputeSafetyStock
SpecSafety == SpecSafetyInit /\ [][SpecSafetyNext]_vars

SpecCsvInit ==
    /\ pc = "csv" /\ InitCsv /\ IdleCalls /\ IdleTrain
    /\ IdleRec /\ IdleSel /\ IdleDb /\ IdleOp /\ IdleTw /\ IdleCap
SpecCsvNext == WriteSalesCsv \/ LoadSalesCsv
SpecCsv == SpecCsvInit /\ [][SpecCsvNext]_vars

SpecCancelInit == InitCancel /\ IdleRec /\ IdleSel /\ IdleCap /\ IdleExt
SpecCancelNext ==
    \/ ServiceBulkStart
    \/ ServiceBulkStep
    \/ ServiceBulkReturn
    \/ ControllerBulkStart
    \/ ControllerBulkSkip
    \/ ControllerBulkStep
    \/ ControllerBulkRespond
    \/ CancelBatch
    \/ PredictFromDBKilled
SpecCancel == SpecCancelInit /\ [][SpecCancelNext]_vars

Init ==
    \/ SpecRecInit \/ SpecSelInit \/ SpecAggInit \/ SpecForecastInit
    \/ SpecBatchInit \/ SpecPredictInit \/ SpecCapInit
    \/ SpecRepeatInit \/ SpecSeededInit \/ SpecTrainInit \/ SpecCancelInit
    \/ SpecPrepInit \/ SpecSchedulerInit \/ SpecTempInit \/ SpecAlertInit \/ SpecPipelineInit \/ SpecDemoInit \/ SpecConstantInit \/ SpecSafetyInit \/ SpecConfInit \/ SpecCsvInit
Next ==
    \/ RecommendStock
    \/ SelectWinner
    \/ AggregateDailySales
    \/ FetchSalesDataFromDB
    \/ ServiceGenerateForecast
    \/ ControllerRejectForecast
    \/ ControllerGenerateForecast
    \/ ServiceBulkStart
    \/ ServiceBulkStep
    \/ ServiceBulkReturn
    \/ ControllerBulkStart
    \/ ControllerBulkSkip
    \/ ControllerBulkStep
    \/ ControllerBulkRespond
    \/ PredictFromDBFail
    \/ PredictFromDB
    \/ UploadPredictReject
    \/ UploadPredict
    \/ CapSeries
    \/ CancelBatch
    \/ PredictFromDBKilled
    \/ CallAgain
    \/ SeededBulk
    \/ RestartSeeded
    \/ ReserveHoldout
    \/ ValidateSeasonal
    \/ ValidateFallbacks
    \/ SelectAndRefit
    \/ Preprocess
    \/ Tick
    \/ TempOperation
    \/ AlertTime
    \/ CreateAlert
    \/ MarkAlertAsRead
    \/ SchedulerStart
    \/ SchedulerStop
    \/ ClockAdvance
    \/ DailyReportPoll
    \/ AutoPipelineStart
    \/ TrainModelFromDBStart
    \/ TrainModelFromDBEnd
    \/ AutoPipelinePredict
    \/ RunDemoFromDB
    \/ MovingAverageForecast
    \/ ComputeSafetyStock
    \/ CalculateConfidence
    \/ ScorePrediction
    \/ WriteSalesCsv
    \/ LoadSalesCsv
Spec == Init /\ [][Next]_vars

(***************************************************************************)
(* Claims                                                                  *)
(***************************************************************************)

C2_ModelSelection ==
    (pc = "done" /\ model_used # "none") =>
        /\ (mape["Seasonal"] <= MapeThreshold) <=> (model_used = "Seasonal")
        /\ (mape["Seasonal"] > MapeThreshold) =>
             \E i \in 1..Len(Fallbacks) :
                /\ model_used = Fallbacks[i]
                /\ \A j \in 1..Len(Fallbacks) : mape[Fallbacks[i]] <= mape[Fallbacks[j]]
                /\ \A j \in 1..(i - 1) : mape[Fallbacks[j]] > mape[Fallbacks[i]]

C2_Witness ==
    /\ pc = "done" /\ model_used = "ExponentialSmoothing"
    /\ mape["Seasonal"] > MapeThreshold
    /\ \A i \in 1..Len(Fallbacks) : mape["Seasonal"] < mape[Fallbacks[i]]
    /\ mape["ExponentialSmoothing"] = mape["MovingAverage"]

\* The sum of the quantities of the sale events of one date.
RECURSIVE SumOn(_, _)
SumOn(sales, d) ==
    IF sales = <<>> THEN 0
    ELSE (IF Head(sales).sale_date = d THEN Head(sales).quantity_sold ELSE 0)
         + SumOn(Tail(sales), d)

SalesOn(sales, d) == {i \in 1..Len(sales) : sales[i].sale_date = d}

C7_GapFree ==
    (pc = "aggregated" /\ dailySales # <<>>) =>
        LET ds == [i \in 1..Len(dailySales) |-> dailySales[i].date]
            cadence == DetectCadence(ds)
        IN  \A i \in 1..Len(ds) :
               PeriodOf(cadence, ds[i]) = PeriodOf(cadence, ds[1]) + i - 1

BulkDone ==
    /\ pc = "done"
    /\ request.op \in {"ForecastService.generateBulkForecasts",
                       "forecastController.bulkGenerateForecasts"}

EntriesOf(productId) == {i \in 1..Len(results) : results[i].productId = productId}
Successes == {i \in 1..Len(results) : results[i].success}
Failures == {i \in 1..Len(results) : ~results[i].success}

\* No call to the database failed during the batch.
DatabaseUp ==
    /\ response.status # "500"
    /\ \A i \in 1..Len(results) :
          results[i].error \notin {"createForecast failed", "getSalesData failed"}

\* C3: a batch of one SKU without any record and N SKUs with valid records
\* (enough of them for either bulk operation) returns exactly N successes and
\* exactly one skip/failure entry, and the operation does not throw.
C3_BatchResilience ==
    (/\ BulkDone
     /\ DatabaseUp
     /\ Cardinality({p \in BatchProducts : sales_data[p] = <<>>}) = 1
     /\ \A p \in BatchProducts :
           sales_data[p] = <<>> \/ Len(sales_data[p]) >= MinSalesRecords)
    => /\ response.status \in {"returned", "200"}
       /\ Cardinality(Successes) = Cardinality(BatchProducts) - 1
       /\ Cardinality(Failures) = 1

PredictDone ==
    /\ pc = "done" /\ response.status = "200"
    /\ request.op \in {"TrendWiseService.predictFromDB", "POST /predict"}

\* response.excluded; a key the response does not carry reads as no entry.
ExcludedOf(resp) == IF "excluded" \in DOMAIN resp THEN resp.excluded ELSE <<>>
ResultSkus == {response.body[i].sku : i \in 1..Len(response.body)}
ExcludedSkus == {ExcludedOf(response)[i].sku : i \in 1..Len(ExcludedOf(response))}

\* C4: in a predict response a SKU is in results only if it is in both the
\* sales and the inventory input; a SKU in one input only is in excluded with
\* a reason ("missing inventory" when inventory lacks it); no SKU is in both
\* lists and no input SKU is in neither.
C4_ResultsAndExcluded ==
    PredictDone =>
        /\ ResultSkus \subseteq (request.salesData \cap request.inventoryData)
        /\ \A s \in request.salesData \ request.inventoryData :
              \E i \in 1..Len(ExcludedOf(response)) :
                 /\ ExcludedOf(response)[i].sku = s
                 /\ ExcludedOf(response)[i].reason = "missing inventory"
        /\ \A s \in request.inventoryData \ request.salesData : s \in ExcludedSkus
        /\ ResultSkus \cap ExcludedSkus = {}
        /\ \A s \in request.salesData \cup request.inventoryData :
              s \in ResultSkus \cup ExcludedSkus

\* C8: after capping every value lies within [Q1 - 1.5 IQR, Q3 + 1.5 IQR]
\* of the series before capping, a value outside the fence has become the
\* nearest fence value, and the series has kept its length.
C8_CappedWithinFence ==
    pc = "capped" =>
        /\ Len(capped) = Len(filled)
        /\ \A i \in 1..Len(capped) :
              /\ LowerFence8(filled) <= capped[i]
              /\ capped[i] <= UpperFence8(filled)
              /\ 8 * filled[i] < LowerFence8(filled) => capped[i] = LowerFence8(filled)
              /\ 8 * filled[i] > UpperFence8(filled) => capped[i] = UpperFence8(filled)

C8_Witness ==
    /\ pc = "capped"
    /\ \E i, j \in 1..Len(filled) :
          /\ 8 * filled[i] < LowerFence8(filled) /\ capped[i] = LowerFence8(filled)
          /\ 8 * filled[j] > UpperFence8(filled) /\ capped[j] = UpperFence8(filled)

MinHistoryDaily == 90

\* C5: every SKU of the input is in exactly one of the success list and the
\* skipped/failed list; a SKU whose series is shorter than the minimum
\* history (90 daily periods) is there as skipped, with a reason, and the
\* batch does not fail because of it.
C5_EverySkuReported ==
    (BulkDone /\ DatabaseUp) =>
        /\ response.status \in {"returned", "200"}
        /\ \A p \in BatchProducts :
              /\ Cardinality(EntriesOf(p)) = 1
              /\ Len(sales_data[p]) < MinHistoryDaily =>
                    \A i \in EntriesOf(p) :
                       ~results[i].success /\ results[i].error # ""

ValidForecast(f) ==
    /\ IsNumber(f.predicted_demand) /\ IsNumber(f.lower_bound)
    /\ IsNumber(f.upper_bound) /\ IsNumber(f.confidence_score)
    /\ f.predicted_demand >= 0
    /\ f.lower_bound >= 0
    /\ f.upper_bound >= f.lower_bound
    /\ f.confidence_score >= 0 /\ f.confidence_score <= 1000

\* C9: every forecast result produced or persisted has a point forecast
\* >= 0, a lower bound >= 0, an upper bound >= the lower bound and a
\* confidence score within [0, 1], all four being defined numbers.
C9_ForecastWellFormed ==
    /\ \A i \in 1..Len(produced) : ValidForecast(produced[i])
    /\ \A i \in 1..Len(demand_forecasts) : ValidForecast(demand_forecasts[i])

CompletedByScript == parsePredictionsOutput(output)

\* C11: once the cancellation of a batch has fired no further SKU job is
\* dispatched, and the batch returns normally a response that holds every
\* result completed so far together with a "cancelled early" flag.
C11_CancelReturnsPartial ==
    cancelledAt # NotCancelled =>
        /\ request.op # "TrendWiseService.predictFromDB" => idx <= cancelledAt
        /\ pc = "done" =>
              /\ response.status # "500"
              /\ "cancelled_early" \in DOMAIN response
              /\ \A i \in 1..Len(results) :
                    \E j \in 1..Len(response.body) : response.body[j] = results[i]
              /\ \A i \in 1..Len(CompletedByScript) :
                    \E j \in 1..Len(response.body) :
                       response.body[j] = CompletedByScript[i]
\* The forecastData objects of the current call.
ProducedNow == SubSeq(produced, Len(previous.produced) + 1, Len(produced))

\* C12: two forecast calls with the same parameters on the same sales
\* history return the same point forecasts, bounds and confidence scores.
C12_Deterministic ==
    (/\ pc = "done" /\ previous # NoCall
     /\ request = previous.request
     /\ response.status = previous.response.status)
        => ProducedNow = previous.produced
\* The forecastData objects of a product among the given ones.
RecordsOf(productId, records) ==
    SelectSeq(records, LAMBDA f : f.product_id = productId)

InList(productId, productIds) ==
    \E i \in 1..Len(productIds) : productIds[i] = productId

\* C13: the result of a SKU in a batch depends only on its own records: it
\* is the same in two batches run from the same start that process their
\* SKUs in another order or hold other SKUs.
C13_NoInterference ==
    (/\ pc = "done" /\ previous # NoCall
     /\ request.op = "ForecastService.generateBulkForecasts"
     /\ "productIds" \in DOMAIN request
     /\ request.days = previous.request.days)
        => \A p \in Products :
              (InList(p, request.productIds) /\ InList(p, previous.request.productIds))
                  => RecordsOf(p, ProducedNow) = RecordsOf(p, previous.produced)
C15_RefitOnFullSeries ==
    pc = "trained" =>
        /\ handle.model_kind = model_used
        /\ handle.fit.fitted_on = 1..Len(trainSeries)
        /\ handle.model_kind = "Naive" =>
              handle.fit.num = trainSeries[Len(trainSeries)]

C15_Witness ==
    /\ pc = "trained"
    /\ holdoutSize > 0
    /\ handle.model_kind = "MovingAverage"
    /\ handle.fit.fitted_on = 1..Len(trainSeries)
    /\ handle.fit.num * fits["MovingAverage"].den
          # fits["MovingAverage"].num * handle.fit.den

\* The dates that have a sale and the gaps between consecutive ones.
PresentDates == {salesData[i].sale_date : i \in 1..Len(salesData)}
PresentGaps ==
    {<<d, e>> \in PresentDates \X PresentDates :
        d < e /\ ~\E m \in PresentDates : d < m /\ m < e}
GapsUpTo(g) == Cardinality({p \in PresentGaps : p[2] - p[1] <= g})

\* The median of the gaps is at most 1.5 days: the middle gap is 1, or the
\* two middle gaps are 1 and at most 2.
MedianGapSmall ==
    LET n == Cardinality(PresentGaps)
    IN  /\ n >= 1
        /\ IF n % 2 = 1 THEN 2 * GapsUpTo(1) >= n + 1
           ELSE 2 * GapsUpTo(1) >= n /\ 2 * GapsUpTo(2) >= n + 2

RECURSIVE WeekTotalUpTo(_, _)
WeekTotalUpTo(week, i) ==
    IF i = 0 THEN 0
    ELSE WeekTotalUpTo(week, i - 1)
         + (IF salesData[i].sale_date \div DaysPerWeek = week
            THEN salesData[i].quantity_sold ELSE 0)

WeekTotal(week) == WeekTotalUpTo(week, Len(salesData))

\* C16: the series is daily exactly when the median gap between
\* consecutive dates with sales is <= 1.5 days; otherwise it is weekly and
\* the value of each calendar week is the sum of the quantities of the week.
C16_CadenceDetection ==
    pc = "preprocessed" =>
        /\ frequency \in {"daily", "weekly"}
        /\ PresentGaps # {} => (frequency = "daily" <=> MedianGapSmall)
        /\ frequency = "weekly" =>
              \A i \in 1..Len(dailySales) :
                 dailySales[i].quantity = WeekTotal(dailySales[i].date)

\* Gaps of 1 and 2 days, median exactly 1.5: daily.
C16_Witness ==
    /\ pc = "preprocessed" /\ frequency = "daily"
    /\ Cardinality(PresentGaps) = 2
    /\ GapsUpTo(1) = 1 /\ GapsUpTo(2) = 2

\* A degenerate history: enough rows for either operation, every quantity 0.
DegenerateHistory(p) ==
    /\ Len(sales_data[p]) >= MinSalesRecords
    /\ \A i \in 1..Len(sales_data[p]) : sales_data[p][i].quantity_sold = 0

\* The lowest score calculateConfidenceIntervals gives, in thousandths.
LowConfidence == 650

\* C17: a degenerate series (all zeros, so that the variability ratio
\* divides by zero) does not make the forecast of the product fail: while
\* the database answers, the call returns a result whose confidence_score
\* is a defined number and a low one.
C17_DegenerateStillForecast ==
    (/\ pc = "done"
     /\ request.op \in {"ForecastService.generateForecast",
                        "forecastController.generateForecast"}
     /\ DegenerateHistory(request.productId)
     /\ response.error \notin {"createForecast failed", "getSalesData failed"})
    => /\ response.status \in {"returned", "200"}
       /\ Len(response.body) = request.days
       /\ \A i \in 1..Len(response.body) :
             /\ IsNumber(response.body[i].confidence_score)
             /\ response.body[i].confidence_score <= LowConfidence

\* The total of the well-formed rows of a date, among the first i rows.
RECURSIVE ValidTotalUpTo(_, _)
ValidTotalUpTo(d, i) ==
    IF i = 0 THEN 0
    ELSE ValidTotalUpTo(d, i - 1)
         + (IF salesData[i].sale_date = d /\ salesData[i].quantity_sold >= 0
            THEN salesData[i].quantity_sold ELSE 0)

HasValidRow(d) ==
    \E i \in 1..Len(salesData) :
       salesData[i].sale_date = d /\ salesData[i].quantity_sold >= 0

\* C18: a sales row with a negative quantity is skipped and the other rows
\* of the product are still processed: every date with a well-formed row
\* is in the loaded series with the total of its well-formed rows, and the
\* series is empty (the product has no history) only when every row is
\* malformed.
C18_MalformedSkipped ==
    pc = "loaded" =>
        /\ \A d \in RawDates :
              HasValidRow(d) =>
                 \E i \in 1..Len(dailySales) :
                    /\ dailySales[i].date = d
                    /\ dailySales[i].quantity = ValidTotalUpTo(d, Len(salesData))
        /\ dailySales = <<>> => \A d \in RawDates : ~HasValidRow(d)

\* The width of the interval of a forecast; f is narrower than g relative
\* to the point forecasts when width(f) / point(f) < width(g) / point(g).
IntervalWidth(f) == f.upper_bound - f.lower_bound

Comparable(f) == ~HasNaN(f) /\ f.predicted_demand > 0

RelativelyNarrower(f, g) ==
    IntervalWidth(f) * g.predicted_demand < IntervalWidth(g) * f.predicted_demand

\* C19: of two forecast results, the one whose interval is narrower
\* relative to its point forecast has a confidence score at least as high.
C19_ConfidenceMonotonic ==
    pc \in {"confidence", "scored"} =>
        \A i, j \in 1..Len(produced) :
           (/\ Comparable(produced[i]) /\ Comparable(produced[j])
            /\ RelativelyNarrower(produced[i], produced[j]))
           => produced[i].confidence_score >= produced[j].confidence_score

\* The square of 1.28 * demand_std * sqrt(lead_time_days), in thousandths.
SafetySquare(std, lead) == 128 * 128 * std * std * lead

\* C20: the safety stock is 1.28 * demand_std * sqrt(lead_time_days) (here
\* to the thousandth below), with the constant 1.28; it is never negative,
\* it is 0 when demand_std is 0, and for a given demand_std it does not
\* decrease when the lead time grows within 1..30.
C20_SafetyStockFormula ==
    pc = "safety computed" =>
        /\ safety_stock >= 0
        /\ safety_stock * safety_stock <= SafetySquare(demand_std, lead_time_days)
        /\ SafetySquare(demand_std, lead_time_days)
              < (safety_stock + 1) * (safety_stock + 1)
        /\ demand_std = 0 => safety_stock = 0
        /\ \A lead \in MinLeadTime..MaxLeadTime :
              lead >= lead_time_days => SafetyStock(demand_std, lead) >= safety_stock

\* demand_std = 0.5 and a lead time of 4 days: 1.28 * 0.5 * 2 = 1.280.
C20_Witness ==
    /\ pc = "safety computed"
    /\ demand_std = MaxStd /\ lead_time_days = 4
    /\ safety_stock = 2 * 128 * MaxStd

\* The series is one sale of c on each of at least 90 consecutive days.
ConstantDaily(c) ==
    /\ Len(dailySales) >= SalesLimit
    /\ \A i \in 1..Len(dailySales) :
          /\ dailySales[i].quantity = c
          /\ dailySales[i].date = dailySales[1].date + i - 1

\* C21: for a product with at least 90 daily records of one constant
\* quantity c > 0, every point forecast equals c; with the safety stock of
\* a deviation of 0, which is 0, the recommendation is Increase for every
\* current stock below c.
C21_ConstantHistory ==
    pc = "predicted" =>
        \A c \in 1..MaxConstant :
           ConstantDaily(c) =>
              \A i \in 1..Len(results) :
                 /\ results[i].predicted = c
                 /\ SafetyStock(0, LeadTimeDays) = 0
                 /\ \A stock \in 0..(c - 1) :
                       Recommend(stock, results[i].predicted,
                                 SafetyStock(0, LeadTimeDays)) = "Increase"

\* A product of the table whose sales query answered has a sale within the
\* window of the query.
SalesRecordFound ==
    \E p \in DOMAIN products \ request.salesErrors :
       \E i \in 1..Len(sales_data[p]) : sales_data[p][i].sale_date >= startDate

StepsAt(entry) == {i \in 1..Len(steps) : steps[i] = entry}

\* C23: in one auto-pipeline request prediction starts only after training
\* has completed successfully, unless skipTraining is set, and then training
\* is not run at all; after a failed training prediction is not run and the
\* response is an error.
C23_TrainBeforePredict ==
    /\ \A j \in StepsAt("predict started") :
          \/ StepsAt("training skipped") # {}
          \/ \E i \in StepsAt("train completed") : i < j
    /\ StepsAt("training skipped") # {} => StepsAt("train started") = {}
    /\ StepsAt("train failed") # {} =>
          /\ StepsAt("predict started") = {}
          /\ pc = "done" /\ response.status = "500"

C23_Witness ==
    /\ pc = "done" /\ response.status = "200"
    /\ steps = <<"train started", "train completed", "predict started">>

\* C24: every temporary file an operation has created has been removed
\* by the time the operation returns or throws.
C24_TempFilesRemoved ==
    \A o \in TempOps :
       opPc[o] = "done" =>
          \A f \in DOMAIN tempFiles : tempFiles[f] # o

\* C28: of two operations in flight each reads only the files it wrote
\* itself, and the files of an operation whose script has yet to run are
\* neither overwritten nor deleted by the other.
C28_TempFilesIsolated ==
    \A o \in TempOps :
       /\ opRead[o] \subseteq {o}
       /\ opPc[o] = "script" =>
             \A f \in {SalesFile(opStamp[o]), InventoryFile(opStamp[o])} :
                f \in DOMAIN tempFiles /\ tempFiles[f] = o

\* C25: a failure while one SKU of the batch of parsed predictions is
\* persisted stays with that SKU: the batch does not throw, and every
\* prediction whose SKU has a products row is still handed to createForecast.
C25_SkuFailureContained ==
    (pc = "done" /\ output # <<>>
     /\ request.op = "TrendWiseService.predictFromDB") =>
        /\ response.status = "200"
        /\ \A i \in DOMAIN parsePredictionsOutput(output) :
              \A p \in DOMAIN products :
                 products[p].sku = parsePredictionsOutput(output)[i].sku =>
                    \E k \in DOMAIN produced : produced[k].product_id = p

\* C27: once the predictions are persisted, inventory_alerts holds a
\* low_stock alert for every predicted SKU recommended Increase whose stock
\* is below its minimum level, and an overstock alert for every one
\* recommended Reduce whose stock is above its maximum level.
C27_AlertsRaised ==
    (pc = "done" /\ request.op = "TrendWiseService.predictFromDB"
     /\ response.status = "200") =>
        \A i \in DOMAIN response.body :
           \A p \in DOMAIN products :
              products[p].sku = response.body[i].sku =>
                 /\ (response.body[i].recommendation = "Increase"
                     /\ products[p].current_stock < products[p].min_stock_level) =>
                       \E k \in DOMAIN inventory_alerts :
                          inventory_alerts[k] = [product_id |-> p,
                                                 alert_type |-> "low_stock"]
                 /\ (response.body[i].recommendation = "Reduce"
                     /\ products[p].current_stock > products[p].max_stock_level) =>
                       \E k \in DOMAIN inventory_alerts :
                          inventory_alerts[k] = [product_id |-> p,
                                                 alert_type |-> "overstock"]

\* C26: inventory_alerts never holds two alerts of the same product and
\* type created less than 24 hours apart, whatever was marked as read in
\* between.
C26_NoDuplicateAlert ==
    pc = "alerts" =>
       \A k, l \in DOMAIN inventory_alerts :
          (k < l /\ inventory_alerts[k].product_id = inventory_alerts[l].product_id
                 /\ inventory_alerts[k].alert_type = inventory_alerts[l].alert_type)
             => inventory_alerts[l].created_at - inventory_alerts[k].created_at
                   >= AlertWindow

\* C29: isRunning is true exactly when the four periodic timers are
\* registered: the runtime then holds those four timers and no other, and
\* when isRunning is false it holds none.
C29_RunningIffTimers ==
    pc = "scheduler" =>
       /\ isRunning =>
             /\ DOMAIN intervals = {TimerNames[i] : i \in DOMAIN TimerNames}
             /\ timers = {intervals[n] : n \in DOMAIN intervals}
             /\ Cardinality(timers) = Len(TimerNames)
       /\ ~isRunning => intervals = <<>> /\ timers = {}

C29_Witness ==
    /\ pc = "scheduler" /\ isRunning /\ consoleLog = "Already running"
    /\ timerSeq = 2 * Len(TimerNames) /\ Cardinality(timers) = Len(TimerNames)

\* C30: on every day whose 8 AM minute the scheduler was running through,
\* started at least one polling period earlier, the daily report is sent
\* exactly once in that minute.
C30_DailyReportOnce ==
    \A d \in 0..(MaxTime \div (DayMinutes * MinuteTicks)) :
       LET start == d * DayMinutes * MinuteTicks + ReportMinute * MinuteTicks
           end == start + MinuteTicks
       IN  (pc = "scheduler" /\ isRunning /\ runningSince + PollTicks <= start
            /\ wallClock >= end)
              => Cardinality({t \in reports : start <= t /\ t < end}) = 1
====
